---------------------------- MODULE Spec2Model ----------------------------
(***************************************************************************)
(* A model of SunPixel's conversion pipeline (src/app/SunPixelWeb.py):     *)
(* palette loading, colour matching, region-average resampling, voxel grid *)
(* construction, serialisation, and the web wrapper that runs one          *)
(* conversion per background thread.                                       *)
(*                                                                         *)
(* Conventions.                                                            *)
(*  - A Python str that the code parses (a palette key) is a sequence of   *)
(*    tokens: "(", ")", ",", " ", a decimal numeral ("255") or a word.     *)
(*  - A JSON value is a record [tag, items]: a list ("list", its items),   *)
(*    a bare string ("str", its characters) or a number ("num").           *)
(*  - A progress value is a rational [n, d] (the code computes floats such *)
(*    as 10 + (k/total)*20); comparisons cross-multiply.                   *)
(*  - Messages and stage names are ASCII tags of the Chinese strings.      *)
(*  - Scale products int(x * (W / w)) are IEEE double products; where they  *)
(*    differ from the exact floor is tabulated (FloatShort).               *)
(***************************************************************************)
EXTENDS Integers, Sequences, FiniteSets, TLC

(***************************************************************************)
(* Bounds of the model.                                                    *)
(***************************************************************************)
MaxSrc == 2        \* largest source image width and height
MaxOut == 3        \* largest requested output width and height
MaxSeed == 1       \* string hash seeds 0..MaxSeed (PYTHONHASHSEED)
ManyBlocks == 129  \* number of blocks of the large palette definition

(***************************************************************************)
(* Generic helpers.                                                        *)
(***************************************************************************)
Min(a, b) == IF a < b THEN a ELSE b
Max(a, b) == IF a > b THEN a ELSE b
SeqRange(s) == {s[i] : i \in DOMAIN s}

None == "None"

(***************************************************************************)
(* Python str -> int, on single numeral tokens: int(x.strip()).            *)
(***************************************************************************)
IntOf == [tok \in {ToString(i) : i \in 0..255} |->
            CHOOSE i \in 0..255 : ToString(i) = tok]

\* x.strip(): drop leading and trailing blanks
RECURSIVE LStrip(_)
LStrip(s) == IF s # <<>> /\ Head(s) = " " THEN LStrip(Tail(s)) ELSE s
RECURSIVE RStrip(_)
RStrip(s) == IF s # <<>> /\ s[Len(s)] = " "
             THEN RStrip(SubSeq(s, 1, Len(s) - 1)) ELSE s
Strip(s) == RStrip(LStrip(s))

\* s.split(','): the parts between commas (always at least one part)
RECURSIVE Split(_, _, _)
Split(s, cur, acc) ==
    IF s = <<>> THEN Append(acc, cur)
    ELSE IF Head(s) = "," THEN Split(Tail(s), <<>>, Append(acc, cur))
    ELSE Split(Tail(s), Append(cur, Head(s)), acc)

\* int(x.strip()) succeeds on exactly one numeral token
IsInt(part) == Len(Strip(part)) = 1 /\ Strip(part)[1] \in DOMAIN IntOf
ToInt(part) == IntOf[Strip(part)[1]]

(***************************************************************************)
(* The key parse of find_closest_color: "(r, g, b)" or "r, g, b".          *)
(* The result is the tuple color_values[:3]; <<>> when int() raises.       *)
(***************************************************************************)
ParseKey(target_color_str) ==
    LET n == Len(target_color_str)
        color_str == IF n >= 1 /\ target_color_str[1] = "(" /\ target_color_str[n] = ")"
                     THEN SubSeq(target_color_str, 2, n - 1)
                     ELSE target_color_str
        parts == Split(color_str, <<>>, <<>>)
    IN IF \E i \in DOMAIN parts : ~IsInt(parts[i]) THEN <<>>
       ELSE [i \in 1..Min(3, Len(parts)) |-> ToInt(parts[i])]

(***************************************************************************)
(* color_distance, as 512 times the square of the value the code returns:  *)
(*   d^2 = (2 + rm/256) dr^2 + 4 dg^2 + (2 + (255 - rm)/256) db^2,         *)
(*   rm = (r1 + r2)/2.                                                     *)
(* math.sqrt is strictly increasing and the radicands are multiples of     *)
(* 1/512 below 2^20, so `<` on the code's floats is `<` on these integers. *)
(***************************************************************************)
\* faulty variant of color_distance: r_mean taken from the first colour only
color_distance_r1(c1, c2) ==
    LET r_sum == c1[1] + c1[1]
        r_diff == c1[1] - c2[1]
        g_diff == c1[2] - c2[2]
        b_diff == c1[3] - c2[3]
    IN (1024 + r_sum) * (r_diff * r_diff)
       + 2048 * (g_diff * g_diff)
       + (1534 - r_sum) * (b_diff * b_diff)

color_distance(c1, c2) ==
    LET r_sum == c1[1] + c2[1]
        r_diff == c1[1] - c2[1]
        g_diff == c1[2] - c2[2]
        b_diff == c1[3] - c2[3]
    IN (1024 + r_sum) * (r_diff * r_diff)
       + 2048 * (g_diff * g_diff)
       + (1534 - r_sum) * (b_diff * b_diff)

(***************************************************************************)
(* JSON values of a palette definition and Python dicts.                   *)
(* A dict is the sequence of its [key, val] items in insertion order.      *)
(***************************************************************************)
JList(items) == [tag |-> "list", items |-> items]
JStr(chars) == [tag |-> "str", items |-> chars]
JNum == [tag |-> "num", items |-> <<>>]
Item(k, v) == [key |-> k, val |-> v]

\* d[k] = v: a present key keeps its position, a new key goes last
DictSet(d, k, v) ==
    IF \E i \in DOMAIN d : d[i].key = k
    THEN [i \in DOMAIN d |-> IF d[i].key = k THEN Item(k, v) ELSE d[i]]
    ELSE Append(d, Item(k, v))

\* d.update(other): the items of other in order (the loop is split in
\* halves so that long dicts evaluate in logarithmic depth)
RECURSIVE DictUpdateRange(_, _, _, _)
DictUpdateRange(d, other, lo, hi) ==
    IF lo > hi THEN d
    ELSE IF lo = hi THEN DictSet(d, other[lo].key, other[lo].val)
    ELSE LET mid == (lo + hi) \div 2
             left == DictUpdateRange(d, other, lo, mid)
         IN IF Len(left) >= 0   \* evaluates the first half before the second
            THEN DictUpdateRange(left, other, mid + 1, hi)
            ELSE left

DictUpdate(d, other) == DictUpdateRange(d, other, 1, Len(other))

(***************************************************************************)
(* Palette definitions: the *.json files a block directory may hold.       *)
(* wool and concrete are the files create_default_block_files writes       *)
(* (keys "r,g,b"), cut to three colours; the others are user files.        *)
(***************************************************************************)
KeyPlain(r, g, b) == <<ToString(r), ",", ToString(g), ",", ToString(b)>>
KeySpaced(r, g, b) == <<ToString(r), ",", " ", ToString(g), ",", " ", ToString(b)>>
KeyParen(r, g, b) == <<"(">> \o KeySpaced(r, g, b) \o <<")">>

WoolJson ==
    << Item(KeyPlain(255, 255, 255), JList(<<"minecraft:white_wool", 0>>)),
       Item(KeyPlain(255, 0, 0), JList(<<"minecraft:red_wool", 14>>)),
       Item(KeyPlain(0, 0, 255), JList(<<"minecraft:blue_wool", 11>>)) >>

ConcreteJson ==
    << Item(KeyPlain(255, 255, 255), JList(<<"minecraft:white_concrete", 0>>)),
       Item(KeyPlain(255, 0, 0), JList(<<"minecraft:red_concrete", 14>>)),
       Item(KeyPlain(0, 0, 255), JList(<<"minecraft:blue_concrete", 11>>)) >>

\* the "(r, g, b)" encoding, one colour shared with wool and concrete
TerracottaJson ==
    << Item(KeyParen(255, 0, 0), JList(<<"minecraft:red_terracotta", 0>>)),
       Item(KeyParen(128, 128, 128), JList(<<"minecraft:gray_terracotta", 0>>)) >>

\* entries the matcher cannot use: unparsable keys, values that are no pair
MixedJson ==
    << Item(<<"red">>, JList(<<"minecraft:red_wool", 14>>)),
       Item(<<"0", ",", "0">>, JList(<<"minecraft:black_wool", 15>>)),
       Item(KeyPlain(255, 255, 255), JStr(<<"m">>)),
       Item(KeySpaced(0, 0, 255), JList(<<"minecraft:lapis_block", 0>>)) >>

\* every key unparsable
JunkJson ==
    << Item(<<"red">>, JList(<<"minecraft:red_wool", 14>>)),
       Item(<<"(", "255", ",", "0", ",", "0">>, JList(<<"minecraft:red_wool", 14>>)) >>

\* a large definition: ManyBlocks blocks, block i of colour (i - 1, 0, 0)
ManyName(i) == "minecraft:block_" \o ToString(i)
ManyJson == [i \in 1..ManyBlocks |-> Item(KeyParen(i - 1, 0, 0), JList(<<ManyName(i), 0>>))]

\* A file of block/: its stem and what json.loads gives for its
\* non-comment lines: "dict" (the items), "nojson" (only comment lines) or
\* "invalid" (json.loads or .items() raises).
BlockFile(stem, kind, items) == [stem |-> stem, kind |-> kind, items |-> items]
WoolFile == BlockFile("wool", "dict", WoolJson)
ConcreteFile == BlockFile("concrete", "dict", ConcreteJson)
TerracottaFile == BlockFile("terracotta", "dict", TerracottaJson)
MixedFile == BlockFile("mixed", "dict", MixedJson)
JunkFile == BlockFile("junk", "dict", JunkJson)
ManyFile == BlockFile("many", "dict", ManyJson)
EmptyFile == BlockFile("empty", "dict", <<>>)
CommentFile == BlockFile("comment", "nojson", <<>>)
InvalidFile == BlockFile("invalid", "invalid", <<>>)

(***************************************************************************)
(* find_closest_color: the linear scan, strict `<`, and the fallbacks.     *)
(* closest_color is the position of the winning key (0 for None);          *)
(* min_distance is -1 for float('inf').                                    *)
(***************************************************************************)
Fallback == <<"minecraft:white_concrete", 0>>

\* faulty variant of ScanStep: `<=` for `<`
ScanStepLast(color_to_block, color, i, st) ==
    LET target_color == ParseKey(color_to_block[i].key)
    IN IF Len(target_color) # 3
       THEN st
       ELSE LET distance == color_distance(color, target_color)
            IN IF st[2] = -1 \/ distance <= st[2] THEN <<i, distance>> ELSE st

\* one iteration of the for loop; st = <<closest_color, min_distance>>
ScanStep(color_to_block, color, i, st) ==
    LET target_color == ParseKey(color_to_block[i].key)
    IN IF Len(target_color) # 3
       THEN st
       ELSE LET distance == color_distance(color, target_color)
            IN IF st[2] = -1 \/ distance < st[2] THEN <<i, distance>> ELSE st

\* iterations lo..hi in order (split in halves: logarithmic depth)
RECURSIVE ScanClosest(_, _, _, _, _)
ScanClosest(color_to_block, color, lo, hi, st) ==
    IF lo > hi THEN st
    ELSE IF lo = hi THEN ScanStep(color_to_block, color, lo, st)
    ELSE LET mid == (lo + hi) \div 2
             left == ScanClosest(color_to_block, color, lo, mid, st)
         IN IF left[1] >= 0   \* evaluates the first half before the second
            THEN ScanClosest(color_to_block, color, mid + 1, hi, left)
            ELSE left

find_closest_color(color_to_block, color) ==
    LET closest_color == ScanClosest(color_to_block, color, 1, Len(color_to_block), <<0, -1>>)[1]
    IN IF closest_color # 0
       THEN LET block_info == color_to_block[closest_color].val
            IN IF block_info.tag = "list" /\ Len(block_info.items) >= 2
               THEN <<block_info.items[1], block_info.items[2]>>
               ELSE Fallback
       ELSE Fallback

(***************************************************************************)
(* Image decoding (load_image_from_bytes).  The bytes of an upload are     *)
(* modelled by what the decoders make of them: the codec that accepts them *)
(* ("png", "jpeg" or "corrupt"), whether the PNG has an alpha channel, and *)
(* the decoded rows (4 samples per pixel with alpha, else 3).              *)
(***************************************************************************)
ImageBytes(codec, alpha, w, h, rows) ==
    [codec |-> codec, alpha |-> alpha, width |-> w, height |-> h, rows |-> rows]

\* True when the branch taken for ext raises: png.Reader on bytes that are
\* no PNG, PIL on bytes that are no image, or the ValueError of the else.
DecodeRaises(image_bytes, ext) ==
    CASE ext \in {".png", ".PNG"} -> image_bytes.codec # "png"
      [] ext \in {".jpg", ".jpeg", ".JPG"} -> image_bytes.codec \notin {"png", "jpeg"}
      [] OTHER -> TRUE

\* str(e) of the exception the branch raises
DecodeError(image_bytes, ext) ==
    CASE ext \in {".png", ".PNG"} -> "png.FormatError"
      [] ext \in {".jpg", ".jpeg", ".JPG"} -> "PIL.UnidentifiedImageError"
      [] OTHER -> "ValueError: unsupported image format"

\* self.pixels: reshape(height, width, 4)[:, :, :3] drops the alpha sample
DecodePixels(image_bytes) ==
    [y \in 0..(image_bytes.height - 1) |->
        [x \in 0..(image_bytes.width - 1) |-> SubSeq(image_bytes.rows[y][x], 1, 3)]]

(***************************************************************************)
(* Resampling (generate_structure, the body of the cell loop).             *)
(***************************************************************************)
\* int(k * scale) with scale = original / size, both products in IEEE
\* doubles.  The rounded quotient times k falls just below the exact
\* integer k * original / size for the triples <<k, original, size>> of
\* FloatShort (all of them, for original and size up to 16); everywhere
\* else in that range the double product truncates to the exact floor.
FloatShort == { <<11, 15, 11>>, <<13, 15, 13>> }

ScaledInt(k, original, size) ==
    IF <<k, original, size>> \in FloatShort
    THEN (k * original) \div size - 1
    ELSE (k * original) \div size

RECURSIVE SumChannel(_, _)
SumChannel(region, c) ==
    IF region = <<>> THEN 0 ELSE Head(region)[c] + SumChannel(Tail(region), c)

\* faulty variant of Region: the slice loses its column offset
RegionFromOrigin(pixels, y0, y1, x0, x1) ==
    IF y1 <= y0 \/ x1 <= x0 THEN <<>>
    ELSE [k \in 1..((y1 - y0) * (x1 - x0)) |->
            pixels[y0 + ((k - 1) \div (x1 - x0))][(k - 1) % (x1 - x0)]]

\* the pixels of self.pixels[y0:y1, x0:x1], row by row
Region(pixels, y0, y1, x0, x1) ==
    IF y1 <= y0 \/ x1 <= x0 THEN <<>>
    ELSE [k \in 1..((y1 - y0) * (x1 - x0)) |->
            pixels[y0 + ((k - 1) \div (x1 - x0))][x0 + ((k - 1) % (x1 - x0))]]

White == <<255, 255, 255>>

\* tuple(np.mean(region, axis=(0, 1)).astype(int))
MeanColor(region) ==
    [c \in 1..3 |-> SumChannel(region, c) \div Len(region)]

avg_color(pixels, original_width, original_height, width, height, x, y) ==
    LET src_x == ScaledInt(x, original_width, width)
        src_y == ScaledInt(y, original_height, height)
        region == Region(pixels,
                         src_y, Min(ScaledInt(y + 1, original_height, height), original_height),
                         src_x, Min(ScaledInt(x + 1, original_width, width), original_width))
    IN IF Len(region) = 0 THEN White ELSE MeanColor(region)

(***************************************************************************)
(* The block palette: list(set([block[0] for block in values])).           *)
(* The iteration order of a set of str follows the strings' hashes, which  *)
(* CPython salts per process (PYTHONHASHSEED): a seed fixes the order.     *)
(***************************************************************************)
BlockNames ==
    << "minecraft:white_wool", "minecraft:red_wool", "minecraft:blue_wool",
       "minecraft:white_concrete", "minecraft:red_concrete", "minecraft:blue_concrete",
       "minecraft:red_terracotta", "minecraft:gray_terracotta",
       "minecraft:black_wool", "minecraft:lapis_block", "m" >>
    \o [i \in 1..ManyBlocks |-> ManyName(i)]

NameCode == [name \in SeqRange(BlockNames) |->
                CHOOSE i \in DOMAIN BlockNames : BlockNames[i] = name]

\* the salted hash of a str
StrHash(name, seed) == (NameCode[name] * (85 * seed + 1)) % 257

\* block[0] raises for a number (TypeError) and for an empty list or str
FirstRaises(block) == block.tag = "num" \/ Len(block.items) = 0

PaletteRaises(color_to_block) ==
    \E i \in DOMAIN color_to_block : FirstRaises(color_to_block[i].val)

\* the exception of the first value whose block[0] raises
PaletteError(color_to_block) ==
    LET i == CHOOSE i \in DOMAIN color_to_block :
                /\ FirstRaises(color_to_block[i].val)
                /\ \A j \in 1..(i - 1) : ~FirstRaises(color_to_block[j].val)
    IN IF color_to_block[i].val.tag = "num" THEN "TypeError" ELSE "IndexError"

ListOfSet(names, seed) ==
    [i \in 1..Cardinality(names) |->
        CHOOSE name \in names :
            Cardinality({m \in names : StrHash(m, seed) < StrHash(name, seed)}) = i - 1]

\* faulty variant of InitPalette: list(...) without set(...)
InitPaletteList(color_to_block, seed) ==
    [i \in DOMAIN color_to_block |-> color_to_block[i].val.items[1]]

InitPalette(color_to_block, seed) ==
    ListOfSet({color_to_block[i].val.items[1] : i \in DOMAIN color_to_block}, seed)

\* faulty variant of BlockIndex: a name outside the palette gets the
\* index past its end instead of 0
BlockIndexNoFallback(block_palette, block_name) ==
    IF block_name \in SeqRange(block_palette)
    THEN (CHOOSE i \in DOMAIN block_palette : block_palette[i] = block_name) - 1
    ELSE Len(block_palette)

\* block_palette.index(block_name) when present, else 0
BlockIndex(block_palette, block_name) ==
    IF block_name \in SeqRange(block_palette)
    THEN (CHOOSE i \in DOMAIN block_palette :
            /\ block_palette[i] = block_name
            /\ \A j \in 1..(i - 1) : block_palette[j] # block_name) - 1
    ELSE 0

(***************************************************************************)
(* Serialisation.  Numbers are written in the width of their NBT tag and   *)
(* read back signed; gzip is lossless and left out.                        *)
(***************************************************************************)
SchemVersion == 2
DataVersion == 3100
LitematicVersion == 5
Depth == 1             \* self.depth
ProgressEvery == 100   \* processed_pixels % 100

\* nbtlib's Short(v) raises OutOfRange outside 16 bits
ShortRaises(v) == v < -32768 \/ v > 32767
ShortBytes(v) == <<(v % 65536) \div 256, v % 256>>
ShortValue(bytes) ==
    LET u == bytes[1] * 256 + bytes[2] IN IF u >= 32768 THEN u - 65536 ELSE u

\* Int(v), for 0 <= v < 2^31
IntBytes(v) == <<v \div 16777216, (v \div 65536) % 256, (v \div 256) % 256, v % 256>>
IntValue(bytes) ==
    (IF bytes[1] >= 128 THEN bytes[1] - 256 ELSE bytes[1]) * 16777216
    + bytes[2] * 65536 + bytes[3] * 256 + bytes[4]

\* nbtlib.ByteArray(list) is np.asarray(list, int8): a value outside int8
\* wraps (numpy < 2) or raises OverflowError (numpy >= 2)
ByteOverflows(v) == v < -128 \/ v > 127
ByteOf(v) == v % 256
ByteValue(byte) == IF byte >= 128 THEN byte - 256 ELSE byte

\* block_data.flatten(order='C') of the (1, height, width) array
Flatten(grid, width, height) ==
    [k \in 1..(width * height) |-> grid[(k - 1) \div width][(k - 1) % width]]

Schematic(width, height, block_palette, block_data) ==
    [ format |-> "schem",
      Version |-> IntBytes(SchemVersion),
      DataVersion |-> IntBytes(DataVersion),
      Width |-> ShortBytes(width),
      Height |-> ShortBytes(Depth),
      Length |-> ShortBytes(height),
      Offset |-> <<IntBytes(0), IntBytes(0), IntBytes(0)>>,
      Palette |-> [i \in DOMAIN block_palette |->
                      [name |-> block_palette[i], tag |-> IntBytes(i - 1)]],
      BlockData |-> [k \in 1..(width * height) |->
                      ByteOf(Flatten(block_data, width, height)[k])],
      BlockEntities |-> <<>> ]

SchemRaises(width, height) ==
    ShortRaises(width) \/ ShortRaises(Depth) \/ ShortRaises(height)

SchemOverflows(width, height, block_data) ==
    \E k \in 1..(width * height) : ByteOverflows(Flatten(block_data, width, height)[k])

\* nbtlib.load: the tags of a schem file as Python values
ParseSchem(file) ==
    [ Version |-> IntValue(file.Version),
      DataVersion |-> IntValue(file.DataVersion),
      Width |-> ShortValue(file.Width),
      Height |-> ShortValue(file.Height),
      Length |-> ShortValue(file.Length),
      Palette |-> [i \in DOMAIN file.Palette |->
                      [name |-> file.Palette[i].name, idx |-> IntValue(file.Palette[i].tag)]],
      Offset |-> [i \in DOMAIN file.Offset |-> IntValue(file.Offset[i])],
      BlockData |-> [k \in DOMAIN file.BlockData |-> ByteValue(file.BlockData[k])],
      BlockEntities |-> file.BlockEntities ]

\* faulty variant of JsonStructure: the last palette index is left out
JsonStructureShort(filename_base, width, height, block_palette, block_data, block_data_values) ==
    LET cells == [k \in 1..(width * height) |->
                    [x |-> (k - 1) % width, z |-> (k - 1) \div width]]
        placed == SelectSeq(cells, LAMBDA c : block_data[c.z][c.x] < Len(block_palette) - 1)
    IN [ format |-> "json",
         name |-> filename_base,
         author |-> "SunPixel",
         version |-> "1.0",
         size |-> [width |-> width, height |-> Depth, length |-> height],
         blocks |-> [k \in DOMAIN placed |->
                       [ x |-> placed[k].x, y |-> 0, z |-> placed[k].z,
                         block |-> block_palette[block_data[placed[k].z][placed[k].x] + 1],
                         data |-> block_data_values[placed[k].z][placed[k].x] ]] ]

\* _save_json_file: the records of the cells in row order
JsonStructure(filename_base, width, height, block_palette, block_data, block_data_values) ==
    LET cells == [k \in 1..(width * height) |->
                    [x |-> (k - 1) % width, z |-> (k - 1) \div width]]
        placed == SelectSeq(cells, LAMBDA c : block_data[c.z][c.x] < Len(block_palette))
    IN [ format |-> "json",
         name |-> filename_base,
         author |-> "SunPixel",
         version |-> "1.0",
         size |-> [width |-> width, height |-> Depth, length |-> height],
         blocks |-> [k \in DOMAIN placed |->
                       [ x |-> placed[k].x, y |-> 0, z |-> placed[k].z,
                         block |-> block_palette[block_data[placed[k].z][placed[k].x] + 1],
                         data |-> block_data_values[placed[k].z][placed[k].x] ]] ]

Litematic(filename_base, width, height, block_palette, block_data) ==
    [ format |-> "litematic",
      Version |-> LitematicVersion,
      Metadata |-> [ EnclosingSize |-> [x |-> width, y |-> Depth, z |-> height],
                     Name |-> filename_base,
                     Author |-> "SunPixel",
                     Description |-> "Generated by SunPixel from image",
                     RegionCount |-> 1 ],
      Regions |-> [ structure |->
          [ Position |-> [x |-> 0, y |-> 0, z |-> 0],
            Size |-> [x |-> width, y |-> Depth, z |-> height],
            BlockStatePalette |-> [i \in DOMAIN block_palette |->
                                     [Name |-> block_palette[i], Properties |-> <<>>]],
            BlockStates |-> Flatten(block_data, width, height) ] ] ]

\* a file whose write stopped part way (the target name exists, truncated)
PartialFile(format_type) == [format |-> format_type, partial |-> TRUE]

(***************************************************************************)
(* The state.                                                              *)
(***************************************************************************)
VARIABLES
    block_dir,            \* the directory "block": [exists, files] (glob order)
    hash_seed,            \* task -> the str hash seed of the process running it
    conversion_results,   \* the task ids registered in the global dict
    progress_manager,     \* task -> its ConversionProgress object
    converter,            \* task -> its WebImageToStructure object and thread
    temp_files,           \* TEMP_DIR: file name -> content
    timers,               \* pending threading.Timer cleanups: [task, file_path]
    downloads,            \* download request handlers: [pc, task, file_path]
    response,             \* the last HTTP response sent
    called                \* the direct calls of functions so far: [fn, args, value]

vars == << block_dir, hash_seed, conversion_results, progress_manager, converter,
           temp_files, timers, downloads, response, called >>

MaxTasks == 2       \* conversions per behaviour
MaxDownloads == 2   \* download requests per behaviour
LargeOut == 101     \* a requested width past ProgressEvery cells

TaskIds == 1..MaxTasks
DownloadIds == 1..MaxDownloads

(***************************************************************************)
(* ConversionProgress.                                                     *)
(***************************************************************************)
Pq(n, d) == [n |-> n, d |-> d]
P(n) == Pq(n, 1)
Leq(p, q) == p.n * q.d <= q.n * p.d

\* ConversionProgress.__init__ (and reset, which restores the same fields)
NewProgress ==
    [ progress |-> P(0), message |-> "", is_running |-> FALSE, current_stage |-> "",
      logs |-> <<>>, filename |-> "", file_path |-> None, download_count |-> 0 ]

Log(pm, message) == [pm EXCEPT !.logs = Append(@, message)]

\* WebImageToStructure.update_progress: ConversionProgress.update, then log
update_progress(pm, progress_value, message, stage) ==
    Log([pm EXCEPT !.progress = progress_value,
                   !.message = message,
                   !.current_stage = IF stage # "" THEN stage ELSE @],
        message)

(***************************************************************************)
(* WebImageToStructure.__init__ plus the arguments and position of the     *)
(* thread running convert.  pc "unborn": no request has created the task.  *)
(***************************************************************************)
NoArgs == [ image_bytes |-> ImageBytes("corrupt", FALSE, 0, 0, <<>>), ext |-> "",
            width |-> <<>>, height |-> <<>>, selected_blocks |-> {},
            format_type |-> "", filename_base |-> "" ]

NewConverter(args) ==
    [ pc |-> "start", args |-> args,
      color_to_block |-> <<>>, block_files |-> <<>>, loaded_files |-> 0,
      pixels |-> <<>>, original_width |-> 0, original_height |-> 0,
      width |-> 0, height |-> 0,
      block_palette |-> <<>>, block_data |-> <<>>, block_data_values |-> <<>>,
      avg_colors |-> <<>>, matched |-> <<>>, processed_pixels |-> 0,
      filepath |-> None, filename |-> "", wrote |-> <<>>, raised |-> "", best |-> <<>>, choice |-> "", result |-> None ]

Unborn == [NewConverter(NoArgs) EXCEPT !.pc = "unborn"]

At(t, pc) == converter[t].pc = pc
Goto(c, pc) == [c EXCEPT !.pc = pc]

\* an exception e raised inside convert's try block
Raise(c, e) == [c EXCEPT !.pc = "except", !.raised = e]

ThreadStep(t, c, pm) ==
    /\ converter' = [converter EXCEPT ![t] = c]
    /\ progress_manager' = [progress_manager EXCEPT ![t] = pm]
    /\ UNCHANGED << block_dir, hash_seed, conversion_results, temp_files, timers,
                    downloads, response, called >>

(***************************************************************************)
(* convert, one action per write to the shared progress object.            *)
(***************************************************************************)
\* convert: reset, is_running = True, the first log and update_progress(5)
Begin(t) ==
    /\ At(t, "start")
    /\ ThreadStep(t, Goto(converter[t], "load_blocks"),
                  update_progress(Log([NewProgress EXCEPT !.is_running = TRUE], "start"),
                                  P(5), "start", "init"))

\* load_block_mappings up to the glob: update_progress(10), the exists() test
LoadStart(t) ==
    /\ At(t, "load_blocks")
    /\ LET pm == update_progress(progress_manager[t], P(10), "loading_blocks", "load_blocks")
           c == [converter[t] EXCEPT !.color_to_block = <<>>]
       IN IF ~block_dir.exists
          THEN ThreadStep(t, Goto(c, "palette_failed"), Log(pm, "no_block_dir"))
          ELSE ThreadStep(t, Goto([c EXCEPT !.block_files = block_dir.files,
                                            !.loaded_files = 0], "load_file"), pm)

\* one iteration of `for block_file in block_files`
LoadFile(t) ==
    /\ At(t, "load_file")
    /\ converter[t].loaded_files < Len(converter[t].block_files)
    /\ LET c == converter[t]
           block_file == c.block_files[c.loaded_files + 1]
           total_files == Len(c.block_files)
           selected == block_file.stem \in c.args.selected_blocks
           loads == selected /\ block_file.kind = "dict"
           pm1 == IF ~selected THEN progress_manager[t]
                  ELSE Log(progress_manager[t],
                           CASE block_file.kind = "dict" -> "loaded_file"
                             [] block_file.kind = "nojson" -> "no_json"
                             [] OTHER -> "load_error")
           c1 == [c EXCEPT !.color_to_block =
                               IF loads THEN DictUpdate(@, block_file.items) ELSE @,
                           !.loaded_files = @ + 1]
       IN ThreadStep(t, c1,
                     update_progress(pm1, Pq(10 * total_files + 20 * c1.loaded_files, total_files),
                                     "blocks_progress", ""))

\* faulty variant of LoadEnd: the empty-table test is missing
LoadEndNoCheck(t) ==
    /\ At(t, "load_file")
    /\ converter[t].loaded_files = Len(converter[t].block_files)
    /\ ThreadStep(t, Goto(converter[t], "load_image"),
                  Log(progress_manager[t], "total_mappings"))

\* after the loop: the empty-table test
LoadEnd(t) ==
    /\ At(t, "load_file")
    /\ converter[t].loaded_files = Len(converter[t].block_files)
    /\ IF converter[t].color_to_block = <<>>
       THEN ThreadStep(t, Goto(converter[t], "palette_failed"),
                       Log(progress_manager[t], "no_mappings"))
       ELSE ThreadStep(t, Goto(converter[t], "load_image"),
                       Log(progress_manager[t], "total_mappings"))

\* convert's `if not self.load_block_mappings(...)`: is_running = False,
\* return False; convert_image_thread then logs the failure
PaletteFailed(t) ==
    /\ At(t, "palette_failed")
    /\ ThreadStep(t, [Goto(converter[t], "done") EXCEPT !.result = "False"],
                  Log([progress_manager[t] EXCEPT !.is_running = FALSE], "failed"))

\* load_image_from_bytes: update_progress(35)
ImageStart(t) ==
    /\ At(t, "load_image")
    /\ ThreadStep(t, Goto(converter[t], "decode"),
                  update_progress(progress_manager[t], P(35), "loading_image", "load_image"))

\* load_image_from_bytes: the decode, then the log and update_progress(40)
ImageDecode(t) ==
    /\ At(t, "decode")
    /\ LET c == converter[t]
       IN IF DecodeRaises(c.args.image_bytes, c.args.ext)
          THEN ThreadStep(t, Raise(c, DecodeError(c.args.image_bytes, c.args.ext)),
                          progress_manager[t])
          ELSE ThreadStep(t, Goto([c EXCEPT !.pixels = DecodePixels(c.args.image_bytes),
                                            !.original_width = c.args.image_bytes.width,
                                            !.original_height = c.args.image_bytes.height],
                                  "set_size"),
                          update_progress(Log(progress_manager[t], "image_loaded"),
                                          P(40), "image_loaded", ""))

\* faulty variant of set_size: no lower limit
set_size_raw(c, width, height) ==
    [c EXCEPT !.width = width, !.height = height]

\* convert's choice of size and set_size
set_size(c, width, height) ==
    [c EXCEPT !.width = Max(1, width), !.height = Max(1, height)]

SetSize(t) ==
    /\ At(t, "set_size")
    /\ LET c == converter[t]
           sized == IF c.args.width = <<>> \/ c.args.height = <<>>
                    THEN set_size(c, c.original_width, c.original_height)
                    ELSE set_size(c, c.args.width[1], c.args.height[1])
       IN ThreadStep(t, Goto(sized, "generate"), Log(progress_manager[t], "size_set"))

\* generate_structure: update_progress(45)
GenStart(t) ==
    /\ At(t, "generate")
    /\ ThreadStep(t, Goto(converter[t], "palette"),
                  update_progress(progress_manager[t], P(45), "generating", "generate"))

\* generate_structure: the palette, its log and update_progress(50)
GenPalette(t) ==
    /\ At(t, "palette")
    /\ LET c == converter[t]
       IN IF PaletteRaises(c.color_to_block)
          THEN ThreadStep(t, Raise(c, PaletteError(c.color_to_block)), progress_manager[t])
          ELSE ThreadStep(t, Goto([c EXCEPT !.block_palette =
                                               InitPalette(c.color_to_block, hash_seed[t])],
                                  "zeros"),
                          update_progress(Log(progress_manager[t], "palette_ready"),
                                          P(50), "palette_ready", ""))

\* generate_structure: the np.zeros arrays and update_progress(55)
Zeros(width, height) == [y \in 0..(height - 1) |-> [x \in 0..(width - 1) |-> 0]]

GenZeros(t) ==
    /\ At(t, "zeros")
    /\ LET c == converter[t]
       IN ThreadStep(t, Goto([c EXCEPT !.block_data = Zeros(c.width, c.height),
                                       !.block_data_values = Zeros(c.width, c.height),
                                       !.avg_colors = [y \in 0..(c.height - 1) |->
                                                          [x \in 0..(c.width - 1) |-> <<>>]],
                                       !.matched = [y \in 0..(c.height - 1) |->
                                                       [x \in 0..(c.width - 1) |-> <<>>]],
                                       !.processed_pixels = 0], "cells"),
                     update_progress(progress_manager[t], P(55), "processing", "pixels"))

\* the cell loop up to and including its next update_progress: the cells
\* processed_pixels+1 .. next multiple of ProgressEvery (or the last cell)
GenCells(t) ==
    /\ At(t, "cells")
    /\ LET c == converter[t]
           total_pixels == c.width * c.height
           upto == Min(total_pixels, ((c.processed_pixels \div ProgressEvery) + 1) * ProgressEvery)
           InChunk(x, y) == LET k == y * c.width + x
                            IN c.processed_pixels <= k /\ k < upto
           avg == [y \in 0..(c.height - 1) |-> [x \in 0..(c.width - 1) |->
                     IF InChunk(x, y)
                     THEN avg_color(c.pixels, c.original_width, c.original_height,
                                    c.width, c.height, x, y)
                     ELSE c.avg_colors[y][x]]]
           found == [y \in 0..(c.height - 1) |-> [x \in 0..(c.width - 1) |->
                       IF InChunk(x, y)
                       THEN find_closest_color(c.color_to_block, avg[y][x])
                       ELSE c.matched[y][x]]]
       IN /\ c.processed_pixels < total_pixels
          /\ ThreadStep(t,
                [c EXCEPT !.avg_colors = avg,
                          !.matched = found,
                          !.block_data = [y \in 0..(c.height - 1) |-> [x \in 0..(c.width - 1) |->
                              IF InChunk(x, y)
                              THEN BlockIndex(c.block_palette, found[y][x][1])
                              ELSE c.block_data[y][x]]],
                          !.block_data_values = [y \in 0..(c.height - 1) |-> [x \in 0..(c.width - 1) |->
                              IF InChunk(x, y) THEN found[y][x][2] ELSE c.block_data_values[y][x]]],
                          !.processed_pixels = upto],
                update_progress(progress_manager[t],
                                Pq(55 * total_pixels + 35 * upto, total_pixels),
                                "pixels_progress", ""))

\* faulty variant of GenEnd: the closing update writes 9 for 90
GenEndTypo(t) ==
    /\ At(t, "cells")
    /\ converter[t].processed_pixels = converter[t].width * converter[t].height
    /\ ThreadStep(t, Goto(converter[t], "save"),
                  update_progress(Log(progress_manager[t], "generated"), P(9), "generated", ""))

\* generate_structure: the closing log and update_progress(90)
GenEnd(t) ==
    /\ At(t, "cells")
    /\ converter[t].processed_pixels = converter[t].width * converter[t].height
    /\ ThreadStep(t, Goto(converter[t], "save"),
                  update_progress(Log(progress_manager[t], "generated"), P(90), "generated", ""))

\* save_to_file: update_progress(90)
SaveStart(t) ==
    /\ At(t, "save")
    /\ ThreadStep(t, Goto(converter[t], "write"),
                  update_progress(progress_manager[t], P(90), "saving", "save"))

\* TEMP_DIR after open(filepath, 'w') and the write
Put(files, name, content) ==
    [n \in DOMAIN files \cup {name} |-> IF n = name THEN content ELSE files[n]]
Remove(files, name) == [n \in DOMAIN files \ {name} |-> files[n]]

FileName(filename_base, format_type) == filename_base \o "." \o format_type

FileContent(c) ==
    CASE c.args.format_type = "schem" ->
            Schematic(c.width, c.height, c.block_palette, c.block_data)
      [] c.args.format_type = "json" ->
            JsonStructure(c.args.filename_base, c.width, c.height, c.block_palette,
                          c.block_data, c.block_data_values)
      [] OTHER ->
            Litematic(c.args.filename_base, c.width, c.height, c.block_palette, c.block_data)

\* _save_schem_file / _save_json_file / _save_litematic_file: build the
\* structure, write the file, log and update_progress(95).  The write may
\* fail part way (OSError), which leaves the file truncated under its name.
SaveFile(t) ==
    /\ At(t, "write")
    /\ LET c == converter[t]
           fmt == c.args.format_type
           filename == FileName(c.args.filename_base, fmt)
           Raises(e) == /\ converter' = [converter EXCEPT ![t] = Raise(c, e)]
                        /\ UNCHANGED << progress_manager, temp_files >>
           Write(content, ok) ==
               /\ temp_files' = Put(temp_files, filename, content)
               /\ IF ok
                  THEN /\ converter' = [converter EXCEPT ![t] =
                              [Goto(c, "finish") EXCEPT !.filepath = filename,
                                                        !.filename = filename,
                                                        !.wrote = <<content>>]]
                       /\ progress_manager' = [progress_manager EXCEPT ![t] =
                              update_progress(Log(@, "saved"), P(95), "saved", "")]
                  ELSE /\ converter' = [converter EXCEPT ![t] = Raise(c, "OSError")]
                       /\ UNCHANGED progress_manager
       IN /\ IF fmt \notin {"schem", "json", "litematic"}
             THEN Raises("ValueError: unsupported format")
             ELSE IF fmt = "schem" /\ SchemRaises(c.width, c.height) THEN Raises("OutOfRange")
             ELSE \/ Write(FileContent(c), TRUE)
                  \/ Write(PartialFile(fmt), FALSE)
                  \/ /\ fmt = "schem"
                     /\ SchemOverflows(c.width, c.height, c.block_data)
                     /\ Raises("OverflowError")
          /\ UNCHANGED << block_dir, hash_seed, conversion_results, timers, downloads,
                          response, called >>

\* convert: the success logs and update_progress(100)
Finish(t) ==
    /\ At(t, "finish")
    /\ ThreadStep(t, Goto(converter[t], "set_result"),
                  update_progress(Log(Log(Log(Log(Log(progress_manager[t],
                        "converted"), "out_size"), "out_count"), "out_blocks"), "out_file"),
                        P(100), "success", "done"))

\* convert: self.progress.set_result(filepath, filename)
SetResult(t) ==
    /\ At(t, "set_result")
    /\ ThreadStep(t, Goto(converter[t], "sleep"),
                  [progress_manager[t] EXCEPT !.file_path = converter[t].filepath,
                                              !.filename = converter[t].filename])

\* convert: after time.sleep(0.5), is_running = False and return True
Stop(t) ==
    /\ At(t, "sleep")
    /\ ThreadStep(t, [Goto(converter[t], "done") EXCEPT !.result = "True"],
                  [progress_manager[t] EXCEPT !.is_running = FALSE])

\* f"... {e}": the message of the except branch carries str(e)
ErrorMsg(e) == "error: " \o e

\* faulty variant of Except: the message leaves the exception out
ExceptGeneric(t) ==
    /\ At(t, "except")
    /\ ThreadStep(t, [Goto(converter[t], "done") EXCEPT !.result = "False"],
                  Log([update_progress(Log(Log(progress_manager[t], "error"), "traceback"),
                                       P(0), "error", "error")
                         EXCEPT !.is_running = FALSE], "failed"))

\* convert's except: two logs, update_progress(0, error_msg, "error"),
\* is_running = False, return False; convert_image_thread logs the failure
Except(t) ==
    /\ At(t, "except")
    /\ LET error_msg == ErrorMsg(converter[t].raised)
       IN ThreadStep(t, [Goto(converter[t], "done") EXCEPT !.result = "False"],
                     Log([update_progress(Log(Log(progress_manager[t], error_msg), "traceback"),
                                          P(0), error_msg, "error")
                            EXCEPT !.is_running = FALSE], "failed"))

(***************************************************************************)
(* The HTTP handlers.                                                      *)
(***************************************************************************)
LogTail == 20

Response(handler, task, status, body) ==
    [handler |-> handler, task |-> task, status |-> status, body |-> body]
NoResponse == Response("", 0, 0, <<>>)

LastN(s, n) == IF Len(s) <= n THEN s ELSE SubSeq(s, Len(s) - n + 1, Len(s))

\* str.lower() on the extensions of the model
Lower(ext) == CASE ext = ".PNG" -> ".png" [] ext = ".JPG" -> ".jpg" [] OTHER -> ext

\* POST /api/convert
convert_image(t, image_filename, image_bytes, width, height, blocks, format_type) ==
    /\ At(t, "unborn")
    /\ \A u \in 1..(t - 1) : ~At(u, "unborn")
    /\ LET selected_blocks == IF blocks = {} THEN {"wool", "concrete"} ELSE blocks
           args == [ image_bytes |-> image_bytes, ext |-> image_filename.ext,
                     width |-> width, height |-> height,
                     selected_blocks |-> selected_blocks,
                     format_type |-> format_type,
                     filename_base |-> image_filename.stem ]
       IN IF format_type \notin {"schem", "json", "litematic"}
             \/ Lower(image_filename.ext) \notin {".png", ".jpg", ".jpeg"}
          THEN /\ response' = Response("convert", 0, 400, <<>>)
               /\ UNCHANGED << conversion_results, progress_manager, converter >>
          ELSE /\ conversion_results' = conversion_results \cup {t}
               /\ progress_manager' = [progress_manager EXCEPT ![t] = NewProgress]
               /\ converter' = [converter EXCEPT ![t] = NewConverter(args)]
               /\ response' = Response("convert", t, 200, <<>>)
    /\ UNCHANGED << block_dir, hash_seed, temp_files, timers, downloads, called >>

\* GET /api/progress/<task_id>
get_progress(t) ==
    /\ response' =
          IF t \notin conversion_results
          THEN Response("progress", t, 404, <<>>)
          ELSE LET progress == progress_manager[t]
               IN Response("progress", t, 200,
                           [ progress |-> progress.progress,
                             message |-> progress.message,
                             stage |-> progress.current_stage,
                             is_running |-> progress.is_running,
                             logs |-> LastN(progress.logs, LogTail),
                             filename |-> progress.filename ])
    /\ UNCHANGED << block_dir, hash_seed, conversion_results, progress_manager, converter,
                    temp_files, timers, downloads, called >>

\* a request handler of download_file: the task_id of its URL, the task and
\* path it is about to send, the status of its answer
IdleDownload == [pc |-> "idle", task_id |-> 0, task |-> 0, file_path |-> None, status |-> 0]

\* GET /api/download/<task_id>, up to the duplicate-download test: the
\* 404 answers, the 403 answer with its cleanup, or on to the send
download_check(d, t) ==
    /\ downloads[d].pc = "idle"
    /\ LET progress == progress_manager[t]
           Answer(status) ==
               /\ response' = Response("download", t, status, <<>>)
               /\ downloads' = [downloads EXCEPT ![d].pc = "done", ![d].task_id = t,
                                                 ![d].status = status]
       IN IF t \notin conversion_results
          THEN Answer(404) /\ UNCHANGED << conversion_results, temp_files >>
          ELSE IF progress.file_path = None \/ progress.file_path \notin DOMAIN temp_files
          THEN Answer(404) /\ UNCHANGED << conversion_results, temp_files >>
          ELSE IF progress.download_count >= 1
          THEN /\ Answer(403)
               /\ temp_files' = Remove(temp_files, progress.file_path)
               /\ conversion_results' = conversion_results \ {t}
          ELSE /\ downloads' = [downloads EXCEPT ![d] =
                                  [pc |-> "send", task_id |-> t, task |-> t,
                                   file_path |-> progress.file_path, status |-> 0]]
               /\ UNCHANGED << conversion_results, temp_files, response >>
    /\ UNCHANGED << block_dir, hash_seed, progress_manager, converter, timers, called >>

\* download_file from `download_count += 1`: send_file (which raises, and
\* answers 500, when the file is gone) and the cleanup timer
download_send(d) ==
    /\ downloads[d].pc = "send"
    /\ LET t == downloads[d].task
           file_path == downloads[d].file_path
       IN /\ progress_manager' = [progress_manager EXCEPT ![t].download_count = @ + 1]
          /\ IF file_path \in DOMAIN temp_files
             THEN /\ response' = Response("download", t, 200, <<temp_files[file_path]>>)
                  /\ timers' = timers \cup {[task |-> t, file_path |-> file_path, by |-> d]}
             ELSE /\ response' = Response("download", t, 500, <<>>)
                  /\ UNCHANGED timers
    /\ downloads' = [downloads EXCEPT ![d].pc = "done", ![d].status = response'.status]
    /\ UNCHANGED << block_dir, hash_seed, conversion_results, converter, temp_files, called >>

\* the threading.Timer(10.0, cleanup) of a served download
cleanup(timer) ==
    /\ timer \in timers
    /\ timers' = timers \ {timer}
    /\ temp_files' = IF timer.file_path \in DOMAIN temp_files
                     THEN Remove(temp_files, timer.file_path) ELSE temp_files
    /\ conversion_results' = conversion_results \ {timer.task}
    /\ UNCHANGED << block_dir, hash_seed, progress_manager, converter, downloads,
                    response, called >>

(***************************************************************************)
(* The inputs of the model: uploads, sizes, block directories.             *)
(***************************************************************************)
PixelColors == << White, <<255, 0, 0>>, <<128, 0, 0>>, <<0, 60, 200>> >>

\* the decoded rows of a w x h image: pixel (x, y) takes the colours in turn
Pattern(a, b, c, w, h, alpha) ==
    [y \in 0..(h - 1) |-> [x \in 0..(w - 1) |->
        PixelColors[((a * x + b * y + c) % Len(PixelColors)) + 1]
        \o (IF alpha THEN <<255>> ELSE <<>>)]]

Png(a, b, c, w, h) == ImageBytes("png", FALSE, w, h, Pattern(a, b, c, w, h, FALSE))
PngAlpha(a, b, c, w, h) == ImageBytes("png", TRUE, w, h, Pattern(a, b, c, w, h, TRUE))
Jpeg(a, b, c, w, h) == ImageBytes("jpeg", FALSE, w, h, Pattern(a, b, c, w, h, FALSE))
Corrupt == ImageBytes("corrupt", FALSE, 0, 0, <<>>)

Images == { Png(a, b, c, w, h) : a \in 0..1, b \in 0..2, c \in 0..3,
                                 w \in 1..MaxSrc, h \in 1..MaxSrc }

\* request.form.get('width', type=int): absent (None) is <<>>, else <<v>>
Absent == <<>>
Given(v) == <<v>>

Dir(files) == [exists |-> TRUE, files |-> files]
NoDir == [exists |-> FALSE, files |-> <<>>]

NumbersFile == BlockFile("numbers", "dict", << Item(KeyPlain(255, 255, 255), JNum) >>)

\* a block directory with a selection of palette names
Scenario(dir, selected_blocks) == [dir |-> dir, selected_blocks |-> selected_blocks]

WoolConcrete == Scenario(Dir(<<WoolFile, ConcreteFile>>), {"wool", "concrete"})
ConcreteWool == Scenario(Dir(<<ConcreteFile, WoolFile>>), {"wool", "concrete"})
WoolTerracotta == Scenario(Dir(<<WoolFile, TerracottaFile>>), {"wool", "terracotta"})
ManyOnly == Scenario(Dir(<<ManyFile>>), {"many"})

GeometryScenarios == { WoolConcrete, WoolTerracotta }

PathScenarios ==
    { Scenario(NoDir, {"wool", "concrete"}),
      Scenario(Dir(<<>>), {"wool", "concrete"}),
      WoolConcrete, ConcreteWool, WoolTerracotta,
      Scenario(Dir(<<WoolFile, ConcreteFile>>), {"wool"}),
      Scenario(Dir(<<WoolFile, MixedFile>>), {"mixed"}),
      Scenario(Dir(<<WoolFile, MixedFile>>), {"wool", "mixed"}),
      Scenario(Dir(<<JunkFile>>), {"junk"}),
      Scenario(Dir(<<WoolFile>>), {"stone"}),
      Scenario(Dir(<<CommentFile, InvalidFile, EmptyFile>>), {"comment", "invalid", "empty"}),
      Scenario(Dir(<<NumbersFile>>), {"numbers"}) }

\* uploads by extension and content
PathUploads ==
    { [ext |-> ".png", image_bytes |-> Png(1, 1, 0, 2, 2)],
      [ext |-> ".PNG", image_bytes |-> PngAlpha(1, 1, 1, 2, 1)],
      [ext |-> ".jpg", image_bytes |-> Jpeg(1, 2, 2, 2, 2)],
      [ext |-> ".jpeg", image_bytes |-> Png(1, 1, 0, 2, 2)],
      [ext |-> ".png", image_bytes |-> Jpeg(1, 2, 2, 2, 2)],
      [ext |-> ".jpg", image_bytes |-> Corrupt],
      [ext |-> ".gif", image_bytes |-> Png(1, 1, 0, 2, 2)] }

PathSizes ==
    { <<Absent, Absent>>, <<Absent, Given(2)>>, <<Given(0), Given(-1)>>,
      <<Given(LargeOut), Given(1)>> }

\* a 15 x 1 image asked at 11 x 1: the last cell's end is int(11 * (15/11))
WideSrc == 15
WideOut == 11
WideUpload == [ext |-> ".png", image_bytes |-> Png(1, 0, 0, WideSrc, 1)]

Formats == {"schem", "json", "litematic"}

Args(upload, size, selected_blocks, format_type, filename_base) ==
    [ image_bytes |-> upload.image_bytes, ext |-> upload.ext,
      width |-> size[1], height |-> size[2],
      selected_blocks |-> selected_blocks,
      format_type |-> format_type, filename_base |-> filename_base ]

\* the state right after convert_image registered task t and started its thread
Started(t, args) ==
    /\ conversion_results = {t}
    /\ progress_manager = [u \in TaskIds |-> NewProgress]
    /\ converter = [u \in TaskIds |-> IF u = t THEN NewConverter(args) ELSE Unborn]

\* no function has been called directly
NoCall == <<>>

Call(fn, args, value) == [fn |-> fn, args |-> args, value |-> value]

Quiet ==
    /\ temp_files = << >>
    /\ timers = {}
    /\ downloads = [d \in DownloadIds |-> IdleDownload]
    /\ response = NoResponse
    /\ called = NoCall

(***************************************************************************)
(* SpecConvert: one conversion, from the start of its thread.              *)
(***************************************************************************)
InitGeometry ==
    \E sc \in GeometryScenarios, seed \in 0..MaxSeed, image \in Images,
       size \in {<<Absent, Absent>>} \cup {<<Given(w), Given(h)>> : w \in 1..MaxOut, h \in 1..MaxOut} :
        /\ block_dir = sc.dir
        /\ hash_seed = [t \in TaskIds |-> seed]
        /\ Started(1, Args([ext |-> ".png", image_bytes |-> image], size,
                           sc.selected_blocks, "schem", "a"))

InitPaths ==
    \E sc \in PathScenarios, seed \in 0..MaxSeed, upload \in PathUploads,
       size \in PathSizes, format_type \in Formats :
        /\ block_dir = sc.dir
        /\ hash_seed = [t \in TaskIds |-> seed]
        /\ Started(1, Args(upload, size, sc.selected_blocks, format_type, "a"))

InitWide ==
    \E seed \in 0..MaxSeed :
        /\ block_dir = WoolConcrete.dir
        /\ hash_seed = [t \in TaskIds |-> seed]
        /\ Started(1, Args(WideUpload, <<Given(WideOut), Given(1)>>,
                           WoolConcrete.selected_blocks, "schem", "a"))

\* the large palette: a pixel of colour (128, 0, 0) matches its last block
InitMany ==
    \E seed \in 0..MaxSeed, format_type \in Formats :
        /\ block_dir = ManyOnly.dir
        /\ hash_seed = [t \in TaskIds |-> seed]
        /\ Started(1, Args([ext |-> ".png", image_bytes |-> Png(1, 1, 0, 2, 2)],
                           <<Absent, Absent>>, ManyOnly.selected_blocks, format_type, "a"))

InitConvert == Quiet /\ (InitGeometry \/ InitPaths \/ InitWide \/ InitMany)

\* one step of the thread of task t
ConvertStep(t) ==
    \/ Begin(t) \/ LoadStart(t) \/ LoadFile(t) \/ LoadEnd(t) \/ PaletteFailed(t)
    \/ ImageStart(t) \/ ImageDecode(t) \/ SetSize(t)
    \/ GenStart(t) \/ GenPalette(t) \/ GenZeros(t) \/ GenCells(t) \/ GenEnd(t)
    \/ SaveStart(t) \/ SaveFile(t) \/ Finish(t) \/ SetResult(t) \/ Stop(t) \/ Except(t)

NextConvert == \E t \in TaskIds : ConvertStep(t)

SpecConvert == InitConvert /\ [][NextConvert]_vars

(***************************************************************************)
(* The command-line converter: the size part of its convert.  Its object   *)
(* has the fields original_width, original_height, width and height of     *)
(* the web converter; `best` is the pair convert gets from                 *)
(* calculate_best_ratio.                                                   *)
(***************************************************************************)
MaxRatio == 6   \* largest source and requested dimension of the size check

Abs(v) == IF v < 0 THEN -v ELSE v

\* ratio pairs (original, target) whose difference is 1/20 as rationals and
\* below 0.05 as doubles (0.25 - 0.2 = 0.04999999999999999)
FloatBelow == { <<1, 4, 1, 5>>, <<1, 5, 1, 4>> }

\* abs(orig_ratio - target_ratio) < 0.05, on the doubles of the quotients
RatioClose(original_width, original_height, target_width, target_height) ==
    \/ 20 * Abs(original_width * target_height - target_width * original_height)
           < original_height * target_height
    \/ \E p \in FloatBelow :
           /\ original_width * p[2] = original_height * p[1]
           /\ target_width * p[4] = target_height * p[3]

calculate_best_ratio(original_width, original_height, target_width, target_height) ==
    IF RatioClose(original_width, original_height, target_width, target_height)
    THEN <<target_width, target_height>>
    ELSE IF original_width * target_height > target_width * original_height
         THEN <<target_width, (target_width * original_height) \div original_width>>
         ELSE <<(target_height * original_width) \div original_height, target_height>>

\* convert after load_image: the size left unset, or the suggestion of
\* calculate_best_ratio and the user's answer to it
CliConvert(t) ==
    /\ At(t, "cli_convert")
    /\ LET c == converter[t]
       IN IF c.args.width = <<>> \/ c.args.height = <<>>
          THEN converter' = [converter EXCEPT ![t] =
                   Goto(set_size(c, c.original_width, c.original_height), "cli_generate")]
          ELSE LET width == c.args.width[1]
                   height == c.args.height[1]
                   best == calculate_best_ratio(c.original_width, c.original_height,
                                                width, height)
                   sized(w, h, choice) ==
                       Goto([set_size(c, w, h) EXCEPT !.best = best, !.choice = choice],
                            "cli_generate")
               IN IF best # <<width, height>>
                  THEN \E choice \in {"y", "n"} :
                          converter' = [converter EXCEPT ![t] =
                              IF choice = "y" THEN sized(best[1], best[2], choice)
                              ELSE sized(width, height, choice)]
                  ELSE converter' = [converter EXCEPT ![t] = sized(width, height, "")]
    /\ UNCHANGED << block_dir, hash_seed, conversion_results, progress_manager,
                    temp_files, timers, downloads, response, called >>

\* SpecRatio: the command-line convert on every source and requested size
InitRatio ==
    /\ Quiet
    /\ block_dir = NoDir
    /\ hash_seed = [t \in TaskIds |-> 0]
    /\ conversion_results = {}
    /\ progress_manager = [t \in TaskIds |-> NewProgress]
    /\ \E original_width \in 1..MaxRatio, original_height \in 1..MaxRatio,
          size \in {<<Absent, Absent>>}
                   \cup {<<Given(w), Given(h)>> : w \in 1..MaxRatio, h \in 1..MaxRatio} :
          converter = [t \in TaskIds |->
              IF t = 1
              THEN [NewConverter([NoArgs EXCEPT !.width = size[1], !.height = size[2]])
                      EXCEPT !.pc = "cli_convert",
                             !.original_width = original_width,
                             !.original_height = original_height]
              ELSE Unborn]

NextRatio == \E t \in TaskIds : CliConvert(t)

SpecRatio == InitRatio /\ [][NextRatio]_vars

(***************************************************************************)
(* Properties of one conversion.                                           *)
(***************************************************************************)
Cells(c) == {<<x, y>> \in (0..(c.width - 1)) \X (0..(c.height - 1)) :
                y * c.width + x < c.processed_pixels}

Logged(t, message) == message \in SeqRange(progress_manager[t].logs)

InCellLoop(t) == converter[t].pc \in {"cells", "save", "write", "finish", "set_result",
                                      "sleep", "except", "done"}
                 /\ Logged(t, "processing")

\* an entry the matcher can use: three ints in the key, a pair in the value
IsColorKey(item) == Len(ParseKey(item.key)) = 3
HasPair(item) == item.val.tag = "list" /\ Len(item.val.items) >= 2
PairOf(item) == <<item.val.items[1], item.val.items[2]>>

\* C1: for a non-empty palette table and any colour handed to the matcher,
\* the pair returned by find_closest_color is the (block, data) pair of an
\* entry of the table, and no entry of the table is strictly closer to the
\* colour under the weighted metric.
C1_ClosestIsTableEntry ==
    \A t \in TaskIds :
        InCellLoop(t) /\ converter[t].color_to_block # <<>> =>
            LET c == converter[t]
                table == c.color_to_block
            IN \A cell \in Cells(c) :
                LET color == c.avg_colors[cell[2]][cell[1]]
                IN \E i \in DOMAIN table :
                      /\ IsColorKey(table[i]) /\ HasPair(table[i])
                      /\ PairOf(table[i]) = c.matched[cell[2]][cell[1]]
                      /\ \A j \in DOMAIN table :
                            IsColorKey(table[j]) =>
                                color_distance(color, ParseKey(table[j].key))
                                    >= color_distance(color, ParseKey(table[i].key))

Generated(t) == Logged(t, "generated")

\* C2: after generate_structure, the index grid has output_height rows of
\* output_width cells (output_width * output_height in all), both sizes
\* are at least 1, and every stored index i has 0 <= i < len(BlockPalette).
C2_GridShapeAndIndexRange ==
    \A t \in TaskIds :
        Generated(t) =>
            LET c == converter[t]
            IN /\ c.width >= 1 /\ c.height >= 1
               /\ DOMAIN c.block_data = 0..(c.height - 1)
               /\ \A y \in DOMAIN c.block_data : DOMAIN c.block_data[y] = 0..(c.width - 1)
               /\ Len(Flatten(c.block_data, c.width, c.height)) = c.width * c.height
               /\ \A y \in DOMAIN c.block_data : \A x \in DOMAIN c.block_data[y] :
                     0 <= c.block_data[y][x] /\ c.block_data[y][x] < Len(c.block_palette)

\* C2 witness: a generated grid of several rows and columns, with a cell
\* of non-zero index and a cell whose block is not in the palette
C2_Witness ==
    \E t \in TaskIds :
        /\ Generated(t)
        /\ converter[t].width * converter[t].height >= 4
        /\ \E cell \in Cells(converter[t]) : converter[t].block_data[cell[2]][cell[1]] >= 1
        /\ \E cell \in Cells(converter[t]) :
              converter[t].matched[cell[2]][cell[1]][1] \notin SeqRange(converter[t].block_palette)

WroteSchem(t) == converter[t].wrote # <<>> /\ converter[t].args.format_type = "schem"

\* C3: parsing back the schem file a conversion wrote recovers Width =
\* output_width, Height = 1, Length = output_height, the palette names with
\* their indices, and BlockData equal to the index grid cell by cell.
C3_SchemRoundTrip ==
    \A t \in TaskIds :
        WroteSchem(t) =>
            LET c == converter[t]
                parsed == ParseSchem(c.wrote[1])
            IN /\ parsed.Width = c.width
               /\ parsed.Height = 1
               /\ parsed.Length = c.height
               /\ {<<parsed.Palette[i].name, parsed.Palette[i].idx>> : i \in DOMAIN parsed.Palette}
                     = {<<c.block_palette[i], i - 1>> : i \in DOMAIN c.block_palette}
               /\ Len(parsed.BlockData) = c.width * c.height
               /\ \A y \in 0..(c.height - 1) : \A x \in 0..(c.width - 1) :
                     parsed.BlockData[y * c.width + x + 1] = c.block_data[y][x]

\* floor(k * original / size) over the rationals: the q with
\* q * size <= k * original < (q + 1) * size
RealFloor(k, original, size) ==
    CHOOSE q \in 0..(k * original) : q * size <= k * original /\ k * original < (q + 1) * size

\* C4: the colour of output cell (x, y) is the component-wise mean,
\* truncated to an integer in 0..255, of the source pixels in
\* [floor(x*sx), min(floor((x+1)*sx), W)) x [floor(y*sy), min(floor((y+1)*sy), H))
\* with sx = W/output_width and sy = H/output_height (real-valued); it is
\* (255,255,255) when that rectangle is empty.
C4_CellIsRectangleMean ==
    \A t \in TaskIds :
        InCellLoop(t) =>
            LET c == converter[t]
            IN \A cell \in Cells(c) :
                LET x == cell[1]
                    y == cell[2]
                    xs == { u \in 0..(c.original_width - 1) :
                              /\ RealFloor(x, c.original_width, c.width) <= u
                              /\ u < RealFloor(x + 1, c.original_width, c.width) }
                    ys == { v \in 0..(c.original_height - 1) :
                              /\ RealFloor(y, c.original_height, c.height) <= v
                              /\ v < RealFloor(y + 1, c.original_height, c.height) }
                    n == Cardinality(xs) * Cardinality(ys)
                    Total(ch) == LET RECURSIVE Sum(_)
                                     Sum(S) == IF S = {} THEN 0
                                               ELSE LET p == CHOOSE p \in S : TRUE
                                                    IN c.pixels[p[2]][p[1]][ch] + Sum(S \ {p})
                                 IN Sum(xs \X ys)
                    avg == c.avg_colors[y][x]
                IN IF n = 0 THEN avg = White
                   ELSE \A ch \in 1..3 :
                           /\ avg[ch] \in 0..255
                           /\ n * avg[ch] <= Total(ch)
                           /\ Total(ch) < n * (avg[ch] + 1)

\* C5: at output size = source size, the resampled colour of every cell
\* (x, y) is pixel (x, y) of the decoded buffer.
C5_IdentitySizeReproduces ==
    \A t \in TaskIds :
        LET c == converter[t]
        IN InCellLoop(t) /\ c.width = c.original_width /\ c.height = c.original_height =>
              \A cell \in Cells(c) :
                  c.avg_colors[cell[2]][cell[1]] = c.pixels[cell[2]][cell[1]]

\* C5 witness: a finished cell loop at the source size, on an image of
\* several rows and columns whose pixels differ
C5_Witness ==
    \E t \in TaskIds :
        LET c == converter[t]
        IN /\ Generated(t)
           /\ c.width = c.original_width /\ c.height = c.original_height
           /\ c.width >= 2 /\ c.height >= 2
           /\ c.pixels[0][0] # c.pixels[0][1] /\ c.pixels[0][0] # c.pixels[1][0]

InRange(p) == Leq(P(0), p) /\ Leq(p, P(100))

C7_EndsWithSuccessOrError ==
    \A t \in TaskIds :
        converter[t].pc = "done" =>
            \/ progress_manager[t].progress = P(100)
            \/ progress_manager[t].current_stage = "error"

\* no selected name resolves to a loaded definition with an entry
NoDefinition(t) ==
    \/ ~block_dir.exists
    \/ \A i \in DOMAIN block_dir.files :
          \/ block_dir.files[i].stem \notin converter[t].args.selected_blocks
          \/ block_dir.files[i].kind # "dict"
          \/ block_dir.files[i].items = <<>>

\* C10: when no selected palette name resolves to a loaded definition (or
\* the block directory is missing), convert ends in the palette failure
\* without raising, decodes no image, generates and saves nothing, and
\* creates no output file.
C10_EmptyPaletteStops ==
    \A t \in TaskIds :
        converter[t].pc # "unborn" /\ NoDefinition(t) =>
            LET c == converter[t]
            IN /\ c.pc \in {"start", "load_blocks", "load_file", "palette_failed", "done"}
               /\ c.pc = "done" => c.result = "False" /\ ~progress_manager[t].is_running
               /\ ~Logged(t, "loading_image") /\ ~Logged(t, "generating")
               /\ ~Logged(t, "saving") /\ progress_manager[t].current_stage # "error"
               /\ c.pixels = <<>> /\ c.block_palette = <<>> /\ c.block_data = <<>>
               /\ c.wrote = <<>>
               /\ progress_manager[t].file_path = None
               /\ FileName(c.args.filename_base, c.args.format_type) \notin DOMAIN temp_files

\* C10 witness: a conversion ended by the palette failure after reading
\* every file of an existing block directory
C10_Witness ==
    \E t \in TaskIds :
        /\ NoDefinition(t)
        /\ converter[t].pc = "done"
        /\ block_dir.exists
        /\ converter[t].loaded_files >= 2
        /\ Logged(t, "no_mappings")

(***************************************************************************)
(* SpecRuns: the same conversion run once per fresh process, one process   *)
(* after the other; each process has its own str hash seed.                *)
(***************************************************************************)
RunImages == { Png(1, 1, 0, 2, 2), Png(1, 2, 1, 2, 1), Png(0, 1, 2, 1, 2), Png(0, 0, 3, 1, 1) }
RunSizes == { <<Absent, Absent>>, <<Given(1), Given(1)>>, <<Given(MaxOut), Given(2)>> }

InitRuns ==
    /\ Quiet
    /\ \E sc \in {WoolConcrete, ConcreteWool, WoolTerracotta, Scenario(Dir(<<WoolFile>>), {"stone"})},
          image \in RunImages, size \in RunSizes, format_type \in Formats :
        /\ block_dir = sc.dir
        /\ hash_seed \in [TaskIds -> 0..MaxSeed]
        /\ conversion_results = TaskIds
        /\ progress_manager = [t \in TaskIds |-> NewProgress]
        /\ converter = [t \in TaskIds |->
              NewConverter(Args([ext |-> ".png", image_bytes |-> image], size,
                                sc.selected_blocks, format_type, "a"))]

\* process t starts when the processes before it have ended
InTurn(t) == \A u \in 1..(t - 1) : At(u, "done")

NextRuns ==
    \E t \in TaskIds :
        \/ InTurn(t) /\ Begin(t)
        \/ InTurn(t) /\ LoadStart(t)
        \/ InTurn(t) /\ LoadFile(t)
        \/ InTurn(t) /\ LoadEnd(t)
        \/ InTurn(t) /\ PaletteFailed(t)
        \/ InTurn(t) /\ ImageStart(t)
        \/ InTurn(t) /\ ImageDecode(t)
        \/ InTurn(t) /\ SetSize(t)
        \/ InTurn(t) /\ GenStart(t)
        \/ InTurn(t) /\ GenPalette(t)
        \/ InTurn(t) /\ GenZeros(t)
        \/ InTurn(t) /\ GenCells(t)
        \/ InTurn(t) /\ GenEnd(t)
        \/ InTurn(t) /\ SaveStart(t)
        \/ InTurn(t) /\ SaveFile(t)
        \/ InTurn(t) /\ Finish(t)
        \/ InTurn(t) /\ SetResult(t)
        \/ InTurn(t) /\ Stop(t)
        \/ InTurn(t) /\ Except(t)

SpecRuns == InitRuns /\ [][NextRuns]_vars

\* C9: two runs in fresh processes on the same image, palette definitions,
\* output size and format produce the same BlockPalette sequence, the same
\* IndexGrid and the same AuxGrid (up to the choice among entries at equal
\* minimal distance, which the scan order fixes).
C9_RunsAgree ==
    \A t, u \in TaskIds :
        Generated(t) /\ Generated(u) =>
            /\ converter[t].block_palette = converter[u].block_palette
            /\ converter[t].block_data = converter[u].block_data
            /\ converter[t].block_data_values = converter[u].block_data_values

(***************************************************************************)
(* Spec: the web server.  Requests start conversions, poll them and        *)
(* download their results; all threads share one process (one hash seed).  *)
(***************************************************************************)
UploadNames == { [stem |-> "a", ext |-> ".png"], [stem |-> "a", ext |-> ".gif"] }
UploadImages == { Png(0, 0, 0, 1, 1), Png(0, 0, 1, 1, 1) }
UploadBlocks == { {}, {"stone"} }
UploadFormats == { "schem", "obj" }

Init ==
    /\ Quiet
    /\ block_dir = WoolConcrete.dir
    /\ hash_seed = [t \in TaskIds |-> 0]
    /\ conversion_results = {}
    /\ progress_manager = [t \in TaskIds |-> NewProgress]
    /\ converter = [t \in TaskIds |-> Unborn]

Next ==
    \/ \E t \in TaskIds, image_filename \in UploadNames, image_bytes \in UploadImages,
          blocks \in UploadBlocks, format_type \in UploadFormats :
            convert_image(t, image_filename, image_bytes, Absent, Absent, blocks, format_type)
    \/ \E t \in TaskIds : ConvertStep(t)
    \/ \E d \in DownloadIds, t \in TaskIds : download_check(d, t)
    \/ \E d \in DownloadIds : download_send(d)
    \/ \E timer \in timers : cleanup(timer)

Spec == Init /\ [][Next]_vars

\* task t's result is recorded and no download of t has begun
ResultPending(t) ==
    /\ t \in conversion_results
    /\ progress_manager[t].file_path # None
    /\ progress_manager[t].download_count = 0
    /\ \A d \in DownloadIds : downloads[d].task # t
    /\ \A timer \in timers : timer.task # t

\* C8: concurrent conversions are independent: until a task's own download,
\* the output file recorded in its file_path exists and holds what that
\* task wrote, whatever other conversions, downloads and cleanups do, also
\* when two uploads have the same file name and output format.
C8_ResultsIndependent ==
    \A t \in TaskIds :
        ResultPending(t) =>
            /\ progress_manager[t].file_path \in DOMAIN temp_files
            /\ temp_files[progress_manager[t].file_path] = converter[t].wrote[1]

(***************************************************************************)
(* SpecPoll: one conversion and the requests polling its progress.         *)
(***************************************************************************)
InitPoll ==
    /\ Quiet
    /\ \E sc \in {WoolConcrete, Scenario(Dir(<<WoolFile>>), {"stone"})},
          upload \in {[ext |-> ".png", image_bytes |-> Png(1, 1, 0, 2, 1)],
                      [ext |-> ".jpg", image_bytes |-> Corrupt]},
          format_type \in Formats :
        /\ block_dir = sc.dir
        /\ hash_seed = [t \in TaskIds |-> 0]
        /\ Started(1, Args(upload, <<Absent, Absent>>, sc.selected_blocks, format_type, "a"))

NextPoll ==
    \/ \E t \in TaskIds : ConvertStep(t)
    \/ \E t \in TaskIds : get_progress(t)

SpecPoll == InitPoll /\ [][NextPoll]_vars

(***************************************************************************)
(* Properties of failures and of the merged table.                         *)
(***************************************************************************)
Aborted(t) == converter[t].pc = "done" /\ converter[t].result = "False"

TargetName(t) == FileName(converter[t].args.filename_base, converter[t].args.format_type)

\* C11: after a conversion that aborts (at any step, the write of the
\* output file included), the file under the target name is absent or
\* complete: no truncated file is left under the target name.
C11_NoPartialFile ==
    \A t \in TaskIds :
        Aborted(t) /\ TargetName(t) \in DOMAIN temp_files =>
            "partial" \notin DOMAIN temp_files[TargetName(t)]

SupportedExt(ext) == Lower(ext) \in {".png", ".jpg", ".jpeg"}

\* the kind of failure a conversion's inputs lead to, stage by stage
\* ("serialization_error": none of the earlier stages fails)
FailureOf(t) ==
    LET a == converter[t].args
    IN CASE ~block_dir.exists -> "missing_directory"
         [] NoDefinition(t) -> "empty_palette"
         [] ~SupportedExt(a.ext) -> "unsupported_image"
         [] \/ Lower(a.ext) = ".png" /\ a.image_bytes.codec # "png"
            \/ a.image_bytes.codec = "corrupt" -> "decode_error"
         [] OTHER -> "serialization_error"

\* the kind of failure the conversion's reason names: the error log lines
\* of load_block_mappings, or the message of the error event
ReportedFailure(t) ==
    LET message == progress_manager[t].message
    IN CASE Logged(t, "no_block_dir") -> "missing_directory"
         [] Logged(t, "no_mappings") -> "empty_palette"
         [] message = ErrorMsg("ValueError: unsupported image format") -> "unsupported_image"
         [] message \in {ErrorMsg("png.FormatError"), ErrorMsg("PIL.UnidentifiedImageError")}
               -> "decode_error"
         [] message \in {ErrorMsg("ValueError: unsupported format"), ErrorMsg("OutOfRange"),
                         ErrorMsg("OverflowError"), ErrorMsg("OSError")}
               -> "serialization_error"
         [] OTHER -> "unknown"

\* the stages whose start is logged after the stage the failure belongs to
LaterStages(kind) ==
    CASE kind \in {"missing_directory", "empty_palette"} ->
            {"loading_image", "generating", "saving", "success"}
      [] kind \in {"unsupported_image", "decode_error"} ->
            {"image_loaded", "generating", "saving", "success"}
      [] OTHER -> {"saved", "success"}

LoadedFiles(t) ==
    SelectSeq(block_dir.files,
              LAMBDA f : f.stem \in converter[t].args.selected_blocks /\ f.kind = "dict")

LoadingDone(t) == Logged(t, "total_mappings")

\* C13: when the same RGB colour is defined in two selected definitions,
\* whatever the encodings of the two keys ("(r, g, b)" or "r, g, b"), the
\* merged table holds a single entry for that colour, and it is the entry
\* of the definition loaded later.
C13_LaterDefinitionWins ==
    \A t \in TaskIds :
        LoadingDone(t) =>
            LET files == LoadedFiles(t)
                table == converter[t].color_to_block
            IN \A i, j \in DOMAIN files :
                  i < j /\ (\A k \in DOMAIN files : k <= j) =>
                      \A a \in SeqRange(files[i].items), b \in SeqRange(files[j].items) :
                          /\ IsColorKey(a) /\ IsColorKey(b)
                          /\ HasPair(a) /\ HasPair(b)
                          /\ ParseKey(a.key) = ParseKey(b.key)
                          => LET same == {n \in DOMAIN table :
                                             /\ IsColorKey(table[n])
                                             /\ ParseKey(table[n].key) = ParseKey(b.key)}
                             IN /\ Cardinality(same) = 1
                                /\ \A n \in same : PairOf(table[n]) = PairOf(b)

(***************************************************************************)
(* Properties of malformed palette entries.                                *)
(***************************************************************************)
WellFormed(item) == IsColorKey(item) /\ HasPair(item)

\* the table the selected definitions give once their malformed entries
\* are taken out of them
RECURSIVE WellFormedTable(_, _)
WellFormedTable(files, n) ==
    IF n = 0 THEN <<>>
    ELSE DictUpdate(WellFormedTable(files, n - 1), SelectSeq(files[n].items, WellFormed))

\* C14: a malformed palette entry is skipped on its own: it never aborts
\* the conversion, it is never the result of a match, and every cell gets
\* the block it would get had the entry been absent from its definition.
C14_MalformedEntrySkipped ==
    \A t \in TaskIds :
        LET c == converter[t]
            reference == WellFormedTable(LoadedFiles(t), Len(LoadedFiles(t)))
        IN /\ c.raised \notin {"TypeError", "IndexError"}
           /\ InCellLoop(t) /\ reference # <<>> =>
                 \A cell \in Cells(c) :
                     c.matched[cell[2]][cell[1]] =
                         find_closest_color(reference, c.avg_colors[cell[2]][cell[1]])

\* the selected definitions have entries, and every one of them is malformed
AllMalformed(t) ==
    /\ converter[t].pc # "unborn"
    /\ \E f \in SeqRange(LoadedFiles(t)) : f.items # <<>>
    /\ \A f \in SeqRange(LoadedFiles(t)) : \A item \in SeqRange(f.items) : ~WellFormed(item)

\* C15: when every entry of every selected definition is malformed, the
\* conversion fails with the empty-palette failure and produces neither a
\* grid nor a file.
C15_AllMalformedIsEmptyPalette ==
    \A t \in TaskIds :
        AllMalformed(t) =>
            /\ ~LoadingDone(t)
            /\ converter[t].block_data = <<>>
            /\ converter[t].wrote = <<>>
            /\ TargetName(t) \notin DOMAIN temp_files
            /\ converter[t].pc = "done" =>
                  converter[t].result = "False" /\ Logged(t, "no_mappings")

(***************************************************************************)
(* Properties of the palette and of the written files.                     *)
(***************************************************************************)
PaletteReady(t) == Logged(t, "palette_ready")

UsedNames(c) == {c.matched[cell[2]][cell[1]][1] : cell \in Cells(c)}

NoDuplicates(seq) == Cardinality(SeqRange(seq)) = Len(seq)

Suggested(t) == converter[t].pc = "cli_generate" /\ converter[t].best # <<>>

\* a size with one dimension as requested and the other the whole part of
\* the value that keeps the ratio original_width : original_height
KeepsRatio(best, original_width, original_height, target_width, target_height) ==
    \/ /\ best[1] = target_width
       /\ best[2] * original_width <= target_width * original_height
       /\ target_width * original_height < (best[2] + 1) * original_width
    \/ /\ best[2] = target_height
       /\ best[1] * original_height <= target_height * original_width
       /\ target_height * original_width < (best[1] + 1) * original_height

\* C17: calculate_best_ratio returns a ratio-preserving size different from
\* the requested one whenever the relative difference of
\* original_width/original_height and target_width/target_height is above
\* 0.05 (taken over the larger ratio), and the requested size unchanged
\* when the relative difference is within 0.05 (taken over the smaller).
C17_RelativeTolerance ==
    \A t \in TaskIds :
        Suggested(t) =>
            LET c == converter[t]
                target_width == c.args.width[1]
                target_height == c.args.height[1]
                orig == c.original_width * target_height
                target == target_width * c.original_height
            IN /\ 20 * Abs(orig - target) > Max(orig, target) =>
                     /\ c.best # <<target_width, target_height>>
                     /\ KeepsRatio(c.best, c.original_width, c.original_height,
                                   target_width, target_height)
               /\ 20 * Abs(orig - target) <= Min(orig, target) =>
                     c.best = <<target_width, target_height>>

\* C18: the schem file a conversion wrote holds Version 2, DataVersion
\* 3100, Width = output_width, Height = 1, Length = output_height, Offset
\* (0, 0, 0), a Palette giving every palette name its position in the
\* block palette, BlockData whose element y * width + x is the index grid's
\* cell (x, y), and no block entities.
C18_SchemContents ==
    \A t \in TaskIds :
        WroteSchem(t) =>
            LET c == converter[t]
                file == ParseSchem(c.wrote[1])
            IN /\ file.Version = 2 /\ file.DataVersion = 3100
               /\ file.Width = c.width /\ file.Height = 1 /\ file.Length = c.height
               /\ file.Offset = <<0, 0, 0>>
               /\ Len(file.Palette) = Len(c.block_palette)
               /\ \A i \in DOMAIN c.block_palette :
                     \E p \in SeqRange(file.Palette) :
                         p.name = c.block_palette[i] /\ p.idx = i - 1
               /\ file.BlockData =
                     [k \in 1..(c.width * c.height) |->
                         c.block_data[(k - 1) \div c.width][(k - 1) % c.width]]
               /\ file.BlockEntities = <<>>

WroteJson(t) == converter[t].wrote # <<>> /\ converter[t].args.format_type = "json"

\* C19: the json file a conversion wrote has one block record for every
\* cell of the grid, width * height records in all; the record of cell
\* (x, row) is {x: x, y: 0, z: row, block: the palette name at the cell's
\* index, data: the cell's aux value}; size is {width, height: 1, length}.
C19_JsonOneRecordPerCell ==
    \A t \in TaskIds :
        WroteJson(t) =>
            LET c == converter[t]
                file == c.wrote[1]
                RecordOf(x, row) ==
                    [ x |-> x, y |-> 0, z |-> row,
                      block |-> c.block_palette[c.block_data[row][x] + 1],
                      data |-> c.block_data_values[row][x] ]
            IN /\ Len(file.blocks) = c.width * c.height
               /\ \A row \in 0..(c.height - 1) : \A x \in 0..(c.width - 1) :
                     /\ Cardinality({k \in DOMAIN file.blocks :
                                        file.blocks[k].x = x /\ file.blocks[k].z = row}) = 1
                     /\ \E k \in DOMAIN file.blocks : file.blocks[k] = RecordOf(x, row)
               /\ file.size = [width |-> c.width, height |-> 1, length |-> c.height]

\* C19 witness: a written json file of a grid of several cells that uses
\* two palette indices, the last one among them
C19_Witness ==
    \E t \in TaskIds :
        /\ WroteJson(t)
        /\ converter[t].width * converter[t].height >= 2
        /\ \E y \in 0..(converter[t].height - 1) : \E x \in 0..(converter[t].width - 1) :
              converter[t].block_data[y][x] = Len(converter[t].block_palette) - 1
        /\ \E y \in 0..(converter[t].height - 1) : \E x \in 0..(converter[t].width - 1) :
              converter[t].block_data[y][x] < Len(converter[t].block_palette) - 1

\* C20: for one generated grid the three serializers encode the same grid:
\* the schem Palette and the litematic BlockStatePalette have the size and
\* the name-to-index assignment of the block palette, the schem BlockData
\* and the litematic BlockStates are the same sequence of indices, the
\* json record at (x, z) names the palette entry of index
\* BlockData[z * width + x], and all three give the size (width, 1, height).
C20_SerializersAgree ==
    \A t \in TaskIds :
        Generated(t) =>
            LET c == converter[t]
                schem == ParseSchem(Schematic(c.width, c.height, c.block_palette, c.block_data))
                region == Litematic(c.args.filename_base, c.width, c.height,
                                    c.block_palette, c.block_data).Regions.structure
                json == JsonStructure(c.args.filename_base, c.width, c.height,
                                      c.block_palette, c.block_data, c.block_data_values)
            IN /\ Len(schem.Palette) = Len(c.block_palette)
               /\ Len(region.BlockStatePalette) = Len(c.block_palette)
               /\ \A i \in DOMAIN c.block_palette :
                     /\ region.BlockStatePalette[i].Name = c.block_palette[i]
                     /\ \E p \in SeqRange(schem.Palette) :
                           p.name = c.block_palette[i] /\ p.idx = i - 1
               /\ schem.BlockData = region.BlockStates
               /\ \A z \in 0..(c.height - 1) : \A x \in 0..(c.width - 1) :
                     \E k \in DOMAIN json.blocks : \E i \in DOMAIN c.block_palette :
                         /\ json.blocks[k].x = x /\ json.blocks[k].z = z
                         /\ i - 1 = schem.BlockData[z * c.width + x + 1]
                         /\ json.blocks[k].block = c.block_palette[i]
               /\ <<schem.Width, schem.Height, schem.Length>> = <<c.width, 1, c.height>>
               /\ region.Size = [x |-> c.width, y |-> 1, z |-> c.height]
               /\ json.size = [width |-> c.width, height |-> 1, length |-> c.height]

(***************************************************************************)
(* SpecDistance: color_distance called on a pair of colours, then on the   *)
(* swapped pair, then on the first colour with itself.                     *)
(***************************************************************************)
Channels == {0, 1, 128, 255}

Colours == Channels \X Channels \X Channels

InitDistance ==
    /\ Quiet
    /\ block_dir = NoDir
    /\ hash_seed = [t \in TaskIds |-> 0]
    /\ conversion_results = {}
    /\ progress_manager = [t \in TaskIds |-> NewProgress]
    /\ converter = [t \in TaskIds |-> Unborn]

Distance(c1, c2) ==
    /\ called' = Append(called, Call("color_distance", <<c1, c2>>, color_distance(c1, c2)))
    /\ UNCHANGED << block_dir, hash_seed, conversion_results, progress_manager, converter,
                    temp_files, timers, downloads, response >>

DistanceFirst ==
    /\ called = NoCall
    /\ \E c1 \in Colours, c2 \in Colours : Distance(c1, c2)

DistanceSwapped ==
    /\ Len(called) = 1
    /\ Distance(called[1].args[2], called[1].args[1])

DistanceSelf ==
    /\ Len(called) = 2
    /\ Distance(called[1].args[1], called[1].args[1])

NextDistance == DistanceFirst \/ DistanceSwapped \/ DistanceSelf

SpecDistance == InitDistance /\ [][NextDistance]_vars

\* 512 times the radicand of the distance formula, rmean2 = 2 * rmean:
\* 512 * (2 + rmean/256) = 1024 + rmean2, 512 * 4 = 2048,
\* 512 * (2 + (255 - rmean)/256) = 1024 + 510 - rmean2
Radicand(a, b) ==
    LET rmean2 == a[1] + b[1]
        Sq(v) == v * v
    IN << (1024 + rmean2) * Sq(a[1] - b[1]),
          2048 * Sq(a[2] - b[2]),
          (1024 + 510 - rmean2) * Sq(a[3] - b[3]) >>

\* C21: for colours with channels in 0..255, color_distance(a, b) =
\* color_distance(b, a), color_distance(a, a) = 0, and the value is the
\* root of (2 + rmean/256) dr^2 + 4 dg^2 + (2 + (255 - rmean)/256) db^2
\* with rmean = (r1 + r2)/2, a radicand that is never negative (values
\* compared as 512 times their squares).
C21_DistanceSymmetric ==
    \A i \in DOMAIN called :
        called[i].fn = "color_distance" =>
            LET a == called[i].args[1]
                b == called[i].args[2]
                terms == Radicand(a, b)
            IN /\ \A k \in 1..3 : terms[k] >= 0
               /\ called[i].value = terms[1] + terms[2] + terms[3]
               /\ a = b => called[i].value = 0
               /\ \A j \in DOMAIN called :
                     called[j].fn = "color_distance" /\ called[j].args = <<b, a>> =>
                         called[j].value = called[i].value

\* C21 witness: the three calls made on two colours that differ in every
\* channel, the first value positive
C21_Witness ==
    /\ Len(called) = 3
    /\ called[1].args[1][1] # called[1].args[2][1]
    /\ called[1].args[1][2] # called[1].args[2][2]
    /\ called[1].args[1][3] # called[1].args[2][3]
    /\ called[2].args = <<called[1].args[2], called[1].args[1]>>
    /\ called[1].value > 0
    /\ called[3].value = 0

(***************************************************************************)
(* SpecSizes: the conversions of SpecConvert and the command-line          *)
(* conversions of SpecRatio, for the properties of the size in use.        *)
(***************************************************************************)
InitSizes == InitConvert \/ InitRatio

NextSizes == NextConvert \/ NextRatio

SpecSizes == InitSizes /\ [][NextSizes]_vars

\* set_size has run: the web convert logged it, the command-line convert
\* is past it
Sized(t) == Logged(t, "size_set") \/ converter[t].pc = "cli_generate"

C23_LookupNeverFallsBack ==
    \A t \in TaskIds :
        InCellLoop(t) =>
            LET c == converter[t]
            IN \A cell \in Cells(c) :
                  LET found == c.matched[cell[2]][cell[1]]
                      index == c.block_data[cell[2]][cell[1]]
                  IN /\ found[1] \in SeqRange(c.block_palette)
                     /\ index \in 0..(Len(c.block_palette) - 1)
                     /\ c.block_palette[index + 1] = found[1]
                     /\ c.block_data_values[cell[2]][cell[1]] = found[2]

\* the entries of the table at the least distance from a colour
\* (as pairs <<index, distance>>, -1 for a key that gives no colour)
Nearest(table, color) ==
    LET measured == {<<i, LET target_color == ParseKey(table[i].key)
                          IN IF Len(target_color) = 3
                             THEN color_distance(color, target_color) ELSE -1>> :
                        i \in DOMAIN table}
        least == {p \in measured :
                     /\ p[2] >= 0
                     /\ \A q \in measured : q[2] >= 0 => q[2] >= p[2]}
    IN {p[1] : p \in least}

FirstOf(indices) == CHOOSE i \in indices : \A j \in indices : i <= j

\* C24: when several entries of the table are at the same least distance
\* from a cell's colour, find_closest_color answers with the first of them
\* in the table's iteration order (its pair, or the fallback pair when its
\* value holds none), never with a later one; and two cells of the same
\* colour get the same answer within a conversion.
C24_FirstOfEqualDistanceWins ==
    \A t \in TaskIds :
        InCellLoop(t) =>
            LET c == converter[t]
                table == c.color_to_block
            IN \A cell \in Cells(c) :
                  LET color == c.avg_colors[cell[2]][cell[1]]
                      found == c.matched[cell[2]][cell[1]]
                      near == Nearest(table, color)
                  IN /\ near # {} =>
                           LET first == table[FirstOf(near)]
                           IN found = IF HasPair(first) THEN PairOf(first) ELSE Fallback
                     /\ \A other \in Cells(c) :
                           c.avg_colors[other[2]][other[1]] = color =>
                               c.matched[other[2]][other[1]] = found

\* C24 witness: a cell whose colour has two nearest entries with different
\* blocks, matched to the block of the first
C24_Witness ==
    \E t \in TaskIds :
        /\ InCellLoop(t)
        /\ \E cell \in Cells(converter[t]) :
              LET table == converter[t].color_to_block
                  near == Nearest(table, converter[t].avg_colors[cell[2]][cell[1]])
              IN /\ Cardinality(near) >= 2
                 /\ \E i \in near : i # FirstOf(near) /\ HasPair(table[i]) /\ HasPair(table[FirstOf(near)])
                                    /\ PairOf(table[i]) # PairOf(table[FirstOf(near)])
                 /\ converter[t].matched[cell[2]][cell[1]] = PairOf(table[FirstOf(near)])

(***************************************************************************)
(* Properties of downloads and polls.                                      *)
(***************************************************************************)
Answered(d) == downloads[d].pc = "done"

Served(t) == {d \in DownloadIds : Answered(d) /\ downloads[d].task_id = t
                                  /\ downloads[d].status = 200}

\* C25: the result file of a task is served at most once: of the download
\* requests for one task_id, however they interleave, at most one is
\* answered with the file and every other one with an error (403 or 404).
C25_ServedAtMostOnce ==
    \A t \in TaskIds :
        /\ Cardinality(Served(t)) <= 1
        /\ \A d \in DownloadIds :
              Answered(d) /\ downloads[d].task_id = t /\ d \notin Served(t) =>
                  downloads[d].status \in {403, 404}

\* the last response is a poll of task t that reports the progress value p
Polled(t, p) ==
    /\ response.handler = "progress" /\ response.task = t /\ response.status = 200
    /\ response.body.progress = p

\* C26: whenever a poll of a task reports progress 100, the task's result
\* is already recorded: file_path and filename are set and the file
\* exists, so that a download asked next is not answered 'file not ready'.
C26_HundredMeansResult ==
    \A t \in TaskIds :
        Polled(t, P(100)) =>
            /\ progress_manager[t].file_path # None
            /\ progress_manager[t].filename # ""
            /\ response.body.filename # ""
            /\ progress_manager[t].file_path \in DOMAIN temp_files

Terminated(t) == converter[t].pc = "done"

\* a step that answers a poll of task t (the conversion threads stand still)
Polls(t) ==
    /\ response'.handler = "progress" /\ response'.task = t /\ response'.status = 200
    /\ UNCHANGED << converter, progress_manager, conversion_results >>
    /\ t \in conversion_results

\* C27: from the registration of a task until its conversion has ended,
\* every poll of the task reports is_running = true; is_running = false is
\* reported only once the conversion has ended, and is_running is false
\* after convert has returned, on every path.
C27_RunningUntilTerminated ==
    [][\A t \in TaskIds :
          /\ Polls(t) => (response'.body.is_running = ~Terminated(t))
          /\ converter'[t].pc = "done" => ~progress_manager'[t].is_running]_vars

(***************************************************************************)
(* Properties of the source rectangles.                                    *)
(***************************************************************************)
\* the slice [start, end) the cell loop takes along one axis for cell k
SliceOf(k, original, size) ==
    <<ScaledInt(k, original, size), Min(ScaledInt(k + 1, original, size), original)>>

\* the slices of the cells 0..size-1 partition 0..original-1
SlicesPartition(original, size) ==
    /\ \A k \in 0..(size - 1) : SliceOf(k, original, size)[1] < SliceOf(k, original, size)[2]
    /\ \A p \in 0..(original - 1) :
          Cardinality({k \in 0..(size - 1) :
                          SliceOf(k, original, size)[1] <= p
                              /\ p < SliceOf(k, original, size)[2]}) = 1

\* C28: when the output is no larger than the source in both dimensions,
\* the source rectangles of the output cells partition the source image:
\* no rectangle is empty, no two overlap, and every source pixel lies in
\* exactly one of them.
C28_RectanglesPartition ==
    \A t \in TaskIds :
        LET c == converter[t]
        IN Generated(t) /\ c.width <= c.original_width /\ c.height <= c.original_height =>
               /\ SlicesPartition(c.original_width, c.width)
               /\ SlicesPartition(c.original_height, c.height)
               /\ \A y \in 0..(c.height - 1) : \A x \in 0..(c.width - 1) :
                     c.avg_colors[y][x] =
                         MeanColor(Region(c.pixels,
                                          SliceOf(y, c.original_height, c.height)[1],
                                          SliceOf(y, c.original_height, c.height)[2],
                                          SliceOf(x, c.original_width, c.width)[1],
                                          SliceOf(x, c.original_width, c.width)[2]))

\* C29: for every source size and every requested size with both dimensions
\* at least 1, the size calculate_best_ratio returns has both dimensions at
\* least 1, exceeds the requested size in neither dimension, and equals it
\* in at least one dimension.
C29_SuggestionWithinRequest ==
    \A t \in TaskIds :
        Suggested(t) =>
            LET c == converter[t]
                target_width == c.args.width[1]
                target_height == c.args.height[1]
            IN /\ c.best[1] >= 1 /\ c.best[2] >= 1
               /\ c.best[1] <= target_width /\ c.best[2] <= target_height
               /\ c.best[1] = target_width \/ c.best[2] = target_height

(***************************************************************************)
(* SpecFix: the verification and repair of a written schem file            *)
(* (SunPixel.py).  A file is the compound nbtlib.load returns, a function  *)
(* from the tags present to their values; the texts of the issue messages  *)
(* are given in English.                                                   *)
(***************************************************************************)
MaxDim == 2          \* the largest Width and Length of a verified file
MaxPaletteLen == 2   \* the most entries of its Palette
MaxData == 2         \* the most bytes of its BlockData

required_fields ==
    <<"Version", "DataVersion", "Width", "Height", "Length", "Palette", "BlockData">>

Incomplete == "incomplete file structure"
BadSize == "invalid size data"
EmptyPalette == "empty palette"
LengthMismatch == "block data length mismatch"
IdOutOfRange == "block id outside the palette"
Verified == "file verified"

\* verify_schem_file on the loaded compound: (is_valid, message)
verify_schem_file(nbt_file) ==
    LET missing_fields == SelectSeq(required_fields, LAMBDA field : field \notin DOMAIN nbt_file)
    IN IF missing_fields # <<>> THEN <<FALSE, Incomplete>>
       ELSE IF nbt_file.Width <= 0 \/ nbt_file.Height <= 0 \/ nbt_file.Length <= 0
       THEN <<FALSE, BadSize>>
       ELSE IF Len(nbt_file.Palette) = 0 THEN <<FALSE, EmptyPalette>>
       ELSE IF Len(nbt_file.BlockData) # nbt_file.Width * nbt_file.Height * nbt_file.Length
       THEN <<FALSE, LengthMismatch>>
       ELSE IF \E k \in DOMAIN nbt_file.BlockData :
                  nbt_file.BlockData[k] >= Len(nbt_file.Palette)
       THEN <<FALSE, IdOutOfRange>>
       ELSE <<TRUE, Verified>>

\* str.replace(old, new)
RECURSIVE Replace(_, _, _)
Replace(s, old, new) ==
    IF Len(s) < Len(old) THEN s
    ELSE IF SubSeq(s, 1, Len(old)) = old
    THEN new \o Replace(SubSeq(s, Len(old) + 1, Len(s)), old, new)
    ELSE SubSeq(s, 1, 1) \o Replace(SubSeq(s, 2, Len(s)), old, new)

\* fix_schem_file on the directory `files`: the directory it leaves and
\* the (success, fix_description, backup_path) it returns
fix_schem_file(files, file_path, issue) ==
    LET nbt_file == files[file_path]
        fixed ==
            IF issue = LengthMismatch
            THEN LET expected_size == nbt_file.Width * nbt_file.Height * nbt_file.Length
                 IN [file |-> Put(nbt_file, "BlockData", [k \in 1..expected_size |-> 0]),
                     fix_description |-> <<"block data reset, length", expected_size>>]
            ELSE IF issue = IdOutOfRange
            THEN LET palette_size == Len(nbt_file.Palette)
                     block_data == nbt_file.BlockData
                 IN [file |-> Put(nbt_file, "BlockData",
                                  [i \in DOMAIN block_data |->
                                      IF block_data[i] >= palette_size THEN 0 ELSE block_data[i]]),
                     fix_description |->
                         <<"block ids fixed",
                           Cardinality({i \in DOMAIN block_data : block_data[i] >= palette_size})>>]
            ELSE LET versioned == IF "Version" \notin DOMAIN nbt_file
                                  THEN Put(nbt_file, "Version", SchemVersion) ELSE nbt_file
                 IN [file |-> IF "DataVersion" \notin DOMAIN versioned
                              THEN Put(versioned, "DataVersion", DataVersion) ELSE versioned,
                     fix_description |-> <<"missing fields added", 0>>]
        backup_path == Replace(file_path, ".schem", "_backup.schem")
        renamed == Put(Remove(files, file_path), backup_path, nbt_file)
    IN [files |-> Put(renamed, file_path, fixed.file),
        value |-> <<TRUE, fixed.fix_description, backup_path>>]

\* main: the verification of the output file
MainVerify ==
    /\ called = NoCall
    /\ \E output_schem \in DOMAIN temp_files :
          called' = <<Call("verify_schem_file", <<output_schem>>,
                           verify_schem_file(temp_files[output_schem]))>>
    /\ UNCHANGED << block_dir, hash_seed, conversion_results, progress_manager, converter,
                    temp_files, timers, downloads, response >>

\* main: the repair the user accepts after a failed verification
MainFix ==
    /\ Len(called) = 1
    /\ ~called[1].value[1]
    /\ LET fix == fix_schem_file(temp_files, called[1].args[1], called[1].value[2])
       IN /\ temp_files' = fix.files
          /\ called' = Append(called,
                 Call("fix_schem_file", <<called[1].args[1], called[1].value[2]>>, fix.value))
    /\ UNCHANGED << block_dir, hash_seed, conversion_results, progress_manager, converter,
                    timers, downloads, response >>

\* main: the verification after a repair that reported success
MainVerifyAgain ==
    /\ Len(called) = 2
    /\ called[2].value[1]
    /\ called' = Append(called,
           Call("verify_schem_file", <<called[1].args[1]>>,
                verify_schem_file(temp_files[called[1].args[1]])))
    /\ UNCHANGED << block_dir, hash_seed, conversion_results, progress_manager, converter,
                    temp_files, timers, downloads, response >>

\* the files to verify: complete compounds and compounds with one tag missing
SchemCompounds ==
    LET complete ==
            { [Version |-> SchemVersion, DataVersion |-> DataVersion,
               Width |-> w, Height |-> Depth, Length |-> l,
               Palette |-> [i \in 1..n |-> i - 1], BlockData |-> data] :
                  w \in 0..MaxDim, l \in 0..MaxDim, n \in 0..MaxPaletteLen,
                  data \in UNION {[1..m -> 0..MaxPaletteLen] : m \in 0..MaxData} }
    IN complete
       \cup { Remove(file, field) : file \in complete, field \in SeqRange(required_fields) }

OutputNames == {"out.schem", "out.SCHEM"}

InitFix ==
    /\ block_dir = NoDir
    /\ hash_seed = [t \in TaskIds |-> 0]
    /\ conversion_results = {}
    /\ progress_manager = [t \in TaskIds |-> NewProgress]
    /\ converter = [t \in TaskIds |-> Unborn]
    /\ timers = {}
    /\ downloads = [d \in DownloadIds |-> IdleDownload]
    /\ response = NoResponse
    /\ called = NoCall
    /\ \E output_schem \in OutputNames, file \in SchemCompounds :
          temp_files = Put(<< >>, output_schem, file)

NextFix == MainVerify \/ MainFix \/ MainVerifyAgain

SpecFix == InitFix /\ [][NextFix]_vars

(***************************************************************************)
(* Properties of the repair.                                               *)
(***************************************************************************)
\* C30: for every issue message verify_schem_file returns for a loadable
\* file, when fix_schem_file reports success the original file is kept
\* under the backup name, and the repaired file passes verify_schem_file
\* on the next verification.
C30_RepairedFilePasses ==
    [][/\ (Len(called) = 1 /\ Len(called') = 2 /\ called'[2].value[1]) =>
              /\ called'[2].value[3] \in DOMAIN temp_files'
              /\ temp_files'[called'[2].value[3]] = temp_files[called[1].args[1]]
       /\ (Len(called) = 2 /\ Len(called') = 3) => called'[3].value[1]]_vars

=============================================================================
